---- MODULE Spec2Model ----
(***************************************************************************)
(* Plan-generation orchestration of ketchup-backend, agents/planning.py:   *)
(* the tool-calling loop (_run_tool_loop), the recovery and normalisation  *)
(* of the model's output (_extract_plans), the two fallback synthesizers   *)
(* and the decision tree of generate_group_plans.                          *)
(*                                                                         *)
(* Every await of the code is a step of the model: a model completion, a   *)
(* tool execution, the loading of the group context.  The synchronous code *)
(* between two awaits is part of the action that ends at the second one.   *)
(***************************************************************************)
EXTENDS Integers, Sequences, FiniteSets, TLC

(***************************************************************************)
(* JSON / Python values.  Every value is a record tagged by its type, so   *)
(* that isinstance tests and truthiness are computed, not assumed.         *)
(***************************************************************************)
JNull == [t |-> "null"]
JStr(s) == [t |-> "str", s |-> s]
JNum(n) == [t |-> "num", n |-> n]
JList(l) == [t |-> "list", l |-> l]
JDict(d) == [t |-> "dict", d |-> d]
JBool(b) == [t |-> "bool", b |-> b]

IsDict(j) == j.t = "dict"
IsList(j) == j.t = "list"
IsStr(j) == j.t = "str"

\* dict.get(key): None when the key is absent.
Get(j, k) == IF k \in DOMAIN j.d THEN j.d[k] ELSE JNull

\* Python truthiness of a JSON value.
Truthy(j) ==
    CASE j.t = "null" -> FALSE
      [] j.t = "str" -> j.s # ""
      [] j.t = "num" -> j.n # 0
      [] j.t = "bool" -> j.b
      [] j.t = "list" -> Len(j.l) > 0
      [] j.t = "dict" -> DOMAIN j.d # {}
      [] OTHER -> TRUE

\* `a or b`
Or(a, b) == IF Truthy(a) THEN a ELSE b

\* str(value) for the values that reach it.
PyStr(j) ==
    CASE j.t = "str" -> j.s
      [] j.t = "num" -> ToString(j.n)
      [] j.t = "null" -> "None"
      [] OTHER -> "<repr>"

Min(a, b) == IF a < b THEN a ELSE b

\* The empty dict.
EmptyMap == [k \in {} |-> JNull]

\* text[:n]
Cut(s, n) == IF Len(s) <= n THEN s ELSE SubSeq(s, 1, n)

(***************************************************************************)
(* Texts.  A text is kept as the form it is written in and the value it    *)
(* denotes: "json" is strict JSON of the value, "fenced" the same inside a *)
(* markdown code fence, "empty" the empty (or blank) string, "prose" a     *)
(* text without any bracket, "broken" a text whose bracket span parses     *)
(* under no stage.  The generation runs keep their texts in these forms;   *)
(* "chars" is a text spelled out for the parsers themselves: its value is  *)
(* the sequence of its characters, where a run of letters, a literal name  *)
(* (true, None) and a number stand as one element, since no step of the    *)
(* parsers looks inside them.                                              *)
(***************************************************************************)
Text(form, value) == [form |-> form, value |-> value]
EmptyText == Text("empty", JNull)
Prose(s) == Text("prose", JStr(s))
JsonDumps(value) == Text("json", value)

Exc(cls, msg) == [cls |-> cls, msg |-> msg]
Ok(v) == [ok |-> TRUE, v |-> v]
Raise(cls, msg) == [ok |-> FALSE, exc |-> Exc(cls, msg)]

DEFAULT_VIBES == <<"anchor", "pivot", "reach", "chill", "wildcard">>
MAX_TOOL_ROUNDS == 2
PlanCount == 5

VibeSet == {DEFAULT_VIBES[i] : i \in 1..Len(DEFAULT_VIBES)}

\* _strip_code_fence: the reasoning block and the fence are removed.
_strip_code_fence(text) ==
    IF text.form = "fenced" THEN Text("json", text.value) ELSE text

(***************************************************************************)
(* Parsing a spelled-out text.  A parse gives Found(value, next), next     *)
(* being the index after the value, or NotFound.                           *)
(***************************************************************************)
Chars(cs) == Text("chars", cs)

NotFound == [ok |-> FALSE]
Found(v, next) == [ok |-> TRUE, v |-> v, next |-> next]

\* str.strip()
RECURSIVE LStrip(_)
LStrip(cs) == IF cs # <<>> /\ Head(cs) = " " THEN LStrip(Tail(cs)) ELSE cs

RECURSIVE RStrip(_)
RStrip(cs) ==
    IF cs # <<>> /\ cs[Len(cs)] = " " THEN RStrip(SubSeq(cs, 1, Len(cs) - 1)) ELSE cs

StripChars(cs) == RStrip(LStrip(cs))

\* The index of the first character at or after i that is no whitespace.
RECURSIVE SkipBlank(_, _)
SkipBlank(cs, i) == IF i <= Len(cs) /\ cs[i] = " " THEN SkipBlank(cs, i + 1) ELSE i

\* What the two grammars tell apart: json.loads reads double-quoted strings,
\* true/false/null and no trailing comma; ast.literal_eval reads strings in
\* either quote, True/False/None and a trailing comma.
Quotes(grammar) == IF grammar = "json" THEN {"\""} ELSE {"\"", "'"}

LiteralNames(grammar) ==
    IF grammar = "json"
    THEN [true |-> JBool(TRUE), false |-> JBool(FALSE), null |-> JNull]
    ELSE [True |-> JBool(TRUE), False |-> JBool(FALSE), None |-> JNull]

TrailingCommaAllowed(grammar) == grammar = "python"

Numerals == ("0" :> 0) @@ ("1" :> 1) @@ ("2" :> 2) @@ ("7" :> 7)

\* The string whose opening quote has been read, from character i on.
RECURSIVE StringFrom(_, _, _, _)
StringFrom(cs, i, quote, acc) ==
    IF i > Len(cs) THEN NotFound
    ELSE IF cs[i] = quote THEN Found(JStr(acc), i + 1)
    ELSE IF cs[i] = "\\"
         THEN IF i + 1 > Len(cs) THEN NotFound
              ELSE StringFrom(cs, i + 2, quote, acc \o cs[i + 1])
    ELSE StringFrom(cs, i + 1, quote, acc \o cs[i])

\* A value at character i; the elements of a list and the members of a dict
\* after "open" (the bracket), "value" or "comma".  Keys are strings: the
\* texts of the model hold no other key and no set or tuple display.
RECURSIVE ValueAt(_, _, _)
RECURSIVE ElementsAt(_, _, _, _, _)
RECURSIVE MembersAt(_, _, _, _, _)
ValueAt(cs, i, grammar) ==
    IF i > Len(cs) THEN NotFound
    ELSE IF cs[i] \in Quotes(grammar) THEN StringFrom(cs, i + 1, cs[i], "")
    ELSE IF cs[i] = "[" THEN ElementsAt(cs, SkipBlank(cs, i + 1), grammar, <<>>, "open")
    ELSE IF cs[i] = "{" THEN MembersAt(cs, SkipBlank(cs, i + 1), grammar, EmptyMap, "open")
    ELSE IF cs[i] \in DOMAIN LiteralNames(grammar)
         THEN Found(LiteralNames(grammar)[cs[i]], i + 1)
    ELSE IF cs[i] \in DOMAIN Numerals THEN Found(JNum(Numerals[cs[i]]), i + 1)
    ELSE NotFound

ElementsAt(cs, i, grammar, acc, after) ==
    IF i > Len(cs) THEN NotFound
    ELSE IF after = "value"
         THEN IF cs[i] = "]" THEN Found(JList(acc), i + 1)
              ELSE IF cs[i] = ","
                   THEN ElementsAt(cs, SkipBlank(cs, i + 1), grammar, acc, "comma")
              ELSE NotFound
    ELSE IF cs[i] = "]" /\ (after = "open" \/ TrailingCommaAllowed(grammar))
         THEN Found(JList(acc), i + 1)
    ELSE LET element == ValueAt(cs, i, grammar) IN
         IF ~element.ok THEN NotFound
         ELSE ElementsAt(cs, SkipBlank(cs, element.next), grammar,
                         Append(acc, element.v), "value")

MembersAt(cs, i, grammar, acc, after) ==
    IF i > Len(cs) THEN NotFound
    ELSE IF after = "value"
         THEN IF cs[i] = "}" THEN Found(JDict(acc), i + 1)
              ELSE IF cs[i] = ","
                   THEN MembersAt(cs, SkipBlank(cs, i + 1), grammar, acc, "comma")
              ELSE NotFound
    ELSE IF cs[i] = "}" /\ (after = "open" \/ TrailingCommaAllowed(grammar))
         THEN Found(JDict(acc), i + 1)
    ELSE IF cs[i] \notin Quotes(grammar) THEN NotFound
    ELSE LET key == StringFrom(cs, i + 1, cs[i], "") IN
         IF ~key.ok THEN NotFound
         ELSE LET colon == SkipBlank(cs, key.next) IN
              IF colon > Len(cs) \/ cs[colon] # ":" THEN NotFound
              ELSE LET member == ValueAt(cs, SkipBlank(cs, colon + 1), grammar) IN
                   IF ~member.ok THEN NotFound
                   ELSE MembersAt(cs, SkipBlank(cs, member.next), grammar,
                                  (key.v.s :> member.v) @@ acc, "value")

\* One value and nothing but whitespace around it.
WholeValue(cs, grammar) ==
    LET value == ValueAt(cs, SkipBlank(cs, 1), grammar) IN
    IF value.ok /\ SkipBlank(cs, value.next) > Len(cs) THEN Ok(value.v)
    ELSE Raise(IF grammar = "json" THEN "JSONDecodeError" ELSE "SyntaxError", "")

\* ast.literal_eval
LiteralEval(cs) == WholeValue(cs, "python")

\* The same loop with the string tracking (lines 205-216) left out.
RECURSIVE BalancedEnd_CountsInStrings(_, _, _, _, _, _)
BalancedEnd_CountsInStrings(text, idx, opener, depth, in_string, escape) ==
    IF idx > Len(text) THEN 0
    ELSE IF text[idx] = opener
         THEN BalancedEnd_CountsInStrings(text, idx + 1, opener, depth + 1, FALSE, FALSE)
    ELSE IF text[idx] = (IF opener = "{" THEN "}" ELSE "]")
         THEN IF depth - 1 = 0 THEN idx
              ELSE BalancedEnd_CountsInStrings(text, idx + 1, opener, depth - 1, FALSE, FALSE)
    ELSE BalancedEnd_CountsInStrings(text, idx + 1, opener, depth, FALSE, FALSE)

\* The for loop of _extract_balanced_segment (lines 203-223): the index of the
\* closer that brings depth to 0, or 0 when the text ends first.
RECURSIVE BalancedEnd(_, _, _, _, _, _)
BalancedEnd(text, idx, opener, depth, in_string, escape) ==
    IF idx > Len(text) THEN 0
    ELSE LET ch == text[idx]
             closer == IF opener = "{" THEN "}" ELSE "]"
         IN  IF in_string
             THEN IF escape THEN BalancedEnd(text, idx + 1, opener, depth, TRUE, FALSE)
                  ELSE IF ch = "\\"
                       THEN BalancedEnd(text, idx + 1, opener, depth, TRUE, TRUE)
                  ELSE IF ch = "\""
                       THEN BalancedEnd(text, idx + 1, opener, depth, FALSE, FALSE)
                  ELSE BalancedEnd(text, idx + 1, opener, depth, TRUE, FALSE)
             ELSE IF ch = "\""
                  THEN BalancedEnd(text, idx + 1, opener, depth, TRUE, escape)
             ELSE IF ch = opener
                  THEN BalancedEnd(text, idx + 1, opener, depth + 1, FALSE, escape)
             ELSE IF ch = closer
                  THEN IF depth - 1 = 0 THEN idx
                       ELSE BalancedEnd(text, idx + 1, opener, depth - 1, FALSE, escape)
             ELSE BalancedEnd(text, idx + 1, opener, depth, FALSE, escape)

\* _extract_balanced_segment; None is the empty sequence.
_extract_balanced_segment(text, start_idx) ==
    LET end == BalancedEnd(text, start_idx, text[start_idx], 0, FALSE, FALSE) IN
    IF end = 0 THEN <<>> ELSE SubSeq(text, start_idx, end)

\* _extract_json_candidate, from index idx on.
RECURSIVE CandidateFrom(_, _)
CandidateFrom(text, idx) ==
    IF idx > Len(text) THEN <<>>
    ELSE IF text[idx] \notin {"{", "["} THEN CandidateFrom(text, idx + 1)
    ELSE IF _extract_balanced_segment(text, idx) # <<>>
         THEN _extract_balanced_segment(text, idx)
    ELSE CandidateFrom(text, idx + 1)

_extract_json_candidate(text) == CandidateFrom(text, 1)

\* re.sub(r",\s*([}\]])", r"\1", candidate), from index i on.
RECURSIVE SanitizeFrom(_, _)
SanitizeFrom(candidate, i) ==
    IF i > Len(candidate) THEN <<>>
    ELSE LET closer == SkipBlank(candidate, i + 1) IN
         IF candidate[i] = "," /\ closer <= Len(candidate)
               /\ candidate[closer] \in {"}", "]"}
         THEN <<candidate[closer]>> \o SanitizeFrom(candidate, closer + 1)
         ELSE <<candidate[i]>> \o SanitizeFrom(candidate, i + 1)

_sanitize_json_like(candidate) == SanitizeFrom(candidate, 1)

\* json.loads: strict JSON only.
JsonLoads(text) ==
    IF text.form = "json" THEN Ok(text.value) ELSE Raise("JSONDecodeError", "")

\* _parse_json_like of a spelled-out text, stage by stage (lines 243-271).
ParseStages(text) ==
    LET candidate == StripChars(text.value)
        substring == _extract_json_candidate(candidate)
        cleaned == _sanitize_json_like(substring)
    IN  IF candidate = <<>> THEN Raise("PlannerError", "LLM output was empty")
        ELSE IF WholeValue(candidate, "json").ok THEN WholeValue(candidate, "json")
        ELSE IF substring # <<>>
             THEN IF WholeValue(cleaned, "json").ok THEN WholeValue(cleaned, "json")
                  ELSE IF LiteralEval(cleaned).ok THEN LiteralEval(cleaned)
                  ELSE Raise("PlannerError", "LLM output JSON parse failed")
        ELSE IF LiteralEval(candidate).ok THEN LiteralEval(candidate)
        ELSE Raise("PlannerError", "LLM output was not valid JSON")

\* _parse_json_like, by the stage that decides each form.
_parse_json_like(text) ==
    CASE text.form = "empty" -> Raise("PlannerError", "LLM output was empty")
      [] text.form = "json" -> Ok(text.value)
      [] text.form = "broken" -> Raise("PlannerError", "LLM output JSON parse failed")
      [] OTHER -> Raise("PlannerError", "LLM output was not valid JSON")

\* _parse_datetime: a string that is ISO-8601 parses, anything else is None.
_parse_datetime(value) ==
    IF IsStr(value) /\ value.s \in {"2026-11-20T19:00:00Z"}
    THEN [t |-> "datetime", at |-> "2026-11-20T19:00:00+00:00"]
    ELSE JNull

\* _normalize_plan with the vibe given by position only, the record's own
\* vibe_type ignored.
_normalize_plan_ByPosition(raw, idx) ==
    LET logistics == Get(raw, "logistics")
    IN  [title |-> PyStr(Or(Get(raw, "title"), JStr("Plan Option " \o ToString(idx + 1)))),
         description |-> Or(Get(raw, "description"), JStr("")),
         vibe_type |-> DEFAULT_VIBES[Min(idx, Len(DEFAULT_VIBES) - 1) + 1],
         date_time |-> _parse_datetime(Get(raw, "date_time")),
         location |-> Or(Get(raw, "location"), JStr("")),
         venue_name |-> Or(Or(Get(raw, "venue_name"), Get(raw, "title")), JStr("")),
         estimated_cost |-> Or(Get(raw, "estimated_cost"), JStr("")),
         logistics |-> IF IsDict(logistics) THEN logistics ELSE JDict(EmptyMap)]

\* _normalize_plan(raw, idx); idx is the 0-based index of the code.
_normalize_plan(raw, idx) ==
    LET vibe == Get(raw, "vibe_type")
        logistics == Get(raw, "logistics")
    IN  [title |-> PyStr(Or(Get(raw, "title"), JStr("Plan Option " \o ToString(idx + 1)))),
         description |-> Or(Get(raw, "description"), JStr("")),
         vibe_type |-> IF IsStr(vibe) /\ vibe.s \in VibeSet
                       THEN vibe.s
                       ELSE DEFAULT_VIBES[Min(idx, Len(DEFAULT_VIBES) - 1) + 1],
         date_time |-> _parse_datetime(Get(raw, "date_time")),
         location |-> Or(Get(raw, "location"), JStr("")),
         venue_name |-> Or(Or(Get(raw, "venue_name"), Get(raw, "title")), JStr("")),
         estimated_cost |-> Or(Get(raw, "estimated_cost"), JStr("")),
         logistics |-> IF IsDict(logistics) THEN logistics ELSE JDict(EmptyMap)]

\* The placeholder record _extract_plans pads with, at list length n.
PlaceholderRaw(n) ==
    JDict([title |-> JStr("Plan Option " \o ToString(n + 1)),
           description |-> JStr("Fallback option generated due to incomplete model response."),
           vibe_type |-> JStr(DEFAULT_VIBES[n + 1]),
           location |-> JStr(""),
           estimated_cost |-> JStr(""),
           logistics |-> JDict(EmptyMap)])

\* The loop of lines 320-323 with the kept records numbered among themselves
\* instead of by their index in raw_plans[:5].
NormalizeKept_Renumbered(items, i) ==
    LET kept == SelectSeq(items, IsDict) IN
    [k \in 1..Len(kept) |-> _normalize_plan(kept[k], k - 1)]

\* for idx, item in enumerate(raw_plans[:5]): dict items are normalised with
\* their own index, the others are dropped.
RECURSIVE NormalizeKept(_, _)
NormalizeKept(items, i) ==
    IF i > Len(items) THEN <<>>
    ELSE (IF IsDict(items[i]) THEN <<_normalize_plan(items[i], i - 1)>> ELSE <<>>)
         \o NormalizeKept(items, i + 1)

\* The padding loop left out: the normalised records as they are.
PadPlans_NoPadding(plans) == plans

\* while len(plans) < 5: plans.append(placeholder)
RECURSIVE PadPlans(_)
PadPlans(plans) ==
    IF Len(plans) >= PlanCount THEN plans
    ELSE PadPlans(Append(plans, _normalize_plan(PlaceholderRaw(Len(plans)), Len(plans))))

\* _extract_plans(raw_text): Ok(plans) or the exception it raises.  Slicing a
\* number or a bool (raw_plans[:5]) is a TypeError, and slicing a non-empty
\* dict is one before Python 3.12 (a KeyError from 3.12 on; the inputs of the
\* model hold no such dict); the characters of a string are no dicts.
_extract_plans(raw_text) ==
    LET parsed == _parse_json_like(_strip_code_fence(raw_text)) IN
    IF ~parsed.ok THEN parsed
    ELSE
      LET raw_plans == IF IsDict(parsed.v) THEN Or(Get(parsed.v, "plans"), JList(<<>>))
                       ELSE IF IsList(parsed.v) THEN parsed.v
                       ELSE JList(<<>>)
      IN  IF ~Truthy(raw_plans) THEN Raise("PlannerError", "LLM returned no plans")
          ELSE IF ~(IsList(raw_plans) \/ IsStr(raw_plans))
               THEN Raise("TypeError", "raw_plans is not subscriptable by a slice")
          ELSE
            LET head == IF IsList(raw_plans)
                        THEN SubSeq(raw_plans.l, 1, Min(PlanCount, Len(raw_plans.l)))
                        ELSE <<>>
                plans == NormalizeKept(head, 1)
            IN  IF plans = <<>> THEN Raise("PlannerError", "LLM returned malformed plans")
                ELSE Ok(PadPlans(plans))

(***************************************************************************)
(* Fallback synthesizers.  A context is [group |-> [name], members |-> a   *)
(* sequence of [name, email, default_location]].  datetime.utcnow() +      *)
(* timedelta(days) is kept as the number of days after the call.           *)
(***************************************************************************)
\* The location of the first member alone, whether it has one or not.
FirstLocation_FirstMemberOnly(members, i) ==
    IF members # <<>> /\ Truthy(members[1].default_location)
    THEN PyStr(members[1].default_location)
    ELSE "Boston, MA"

RECURSIVE FirstLocation(_, _)
FirstLocation(members, i) ==
    IF i > Len(members) THEN "Boston, MA"
    ELSE IF Truthy(members[i].default_location) THEN PyStr(members[i].default_location)
    ELSE FirstLocation(members, i + 1)

MemberNames(members) ==
    [i \in 1..Len(members) |->
        JStr(PyStr(Or(Or(members[i].name, members[i].email), JStr("member"))))]

Templates ==
    <<[title |-> "Cozy Cafe Catch-up",
       description |-> "Relaxed hangout over coffee and conversation.",
       cost |-> "$10-20 per person"],
      [title |-> "Food Hall Sampler",
       description |-> "Try multiple cuisines together in one spot.",
       cost |-> "$20-35 per person"],
      [title |-> "Park Picnic Sunset",
       description |-> "Low-cost outdoor plan with time to talk.",
       cost |-> "$5-15 per person"],
      [title |-> "Bowling + Snacks",
       description |-> "Casual activity with light competition.",
       cost |-> "$25-40 per person"],
      [title |-> "Live Event Night",
       description |-> "Explore a slightly adventurous local event.",
       cost |-> "$30-60 per person"]>>

FallbackDaysOut == 7
ReasonMax == 180
RefinementMax == 240

_build_fallback_plans(context, reason, refinement_notes) ==
    [i \in 1..Len(Templates) |->
        [title |-> Templates[i].title,
         description |-> JStr(Templates[i].description \o " (Fallback plan for "
                              \o context.group.name \o ".)"),
         vibe_type |-> DEFAULT_VIBES[i],
         date_time |-> [t |-> "datetime", days_out |-> FallbackDaysOut + (i - 1)],
         location |-> JStr(FirstLocation(context.members, 1)),
         venue_name |-> JStr(Templates[i].title),
         estimated_cost |-> JStr(Templates[i].cost),
         logistics |-> JDict([source |-> JStr("fallback"),
                              reason |-> JStr(Cut(reason, ReasonMax)),
                              refinement_notes |->
                                  JStr(Cut(PyStr(Or(refinement_notes, JStr(""))), RefinementMax)),
                              members |-> JList(MemberNames(context.members))])]]

\* str.strip() and str.lower() on the strings of the model.
StripStr(s) ==
    CASE s = "LUCKY STRIKE " -> "LUCKY STRIKE"
      [] s = " price_level_moderate " -> "price_level_moderate"
      [] s = "  " -> ""
      [] OTHER -> s

LowerStr(s) ==
    CASE s \in {"Lucky Strike", "LUCKY STRIKE"} -> "lucky strike"
      [] s = "Kings Dining" -> "kings dining"
      [] s = "Trident Cafe" -> "trident cafe"
      [] s = "Brattle Theatre" -> "brattle theatre"
      [] s = "Flat Top Johnny's" -> "flat top johnny's"
      [] s = "Aeronaut Brewing" -> "aeronaut brewing"
      [] s = "145 Ipswich St, Boston" -> "145 ipswich st, boston"
      [] s = "50 Dalton St, Boston" -> "50 dalton st, boston"
      [] OTHER -> s

UpperStr(s) ==
    CASE s = "price_level_moderate" -> "PRICE_LEVEL_MODERATE"
      [] s = "cheap" -> "CHEAP"
      [] OTHER -> s

PriceLevelNames ==
    <<"PRICE_LEVEL_FREE", "PRICE_LEVEL_INEXPENSIVE", "PRICE_LEVEL_MODERATE",
      "PRICE_LEVEL_EXPENSIVE", "PRICE_LEVEL_VERY_EXPENSIVE">>

\* int(text) for the strings of the model: an integer numeral, whitespace
\* around it allowed, or ValueError.
IntOfStr(s) ==
    CASE s = "3" -> Ok(3)
      [] s = " 4 " -> Ok(4)
      [] s = "-1" -> Ok(-1)
      [] OTHER -> Raise("ValueError", "invalid literal for int() with base 10")

\* The enum names numbered from 1.
PriceLevelInt_NamesFromOne(price_level) ==
    LET named == IF IsStr(price_level)
                 THEN {k \in 1..Len(PriceLevelNames) :
                          PriceLevelNames[k] = UpperStr(StripStr(price_level.s))}
                 ELSE {}
    IN  IF named # {} THEN Ok(CHOOSE k \in named : TRUE)
        ELSE IF price_level.t = "num" THEN Ok(price_level.n)
        ELSE Raise("ValueError", "")

\* int(price_level) after the enum_map lookup: Ok(level), or the TypeError /
\* ValueError the code catches.
PriceLevelInt(price_level) ==
    LET named == IF IsStr(price_level)
                 THEN {k \in 1..Len(PriceLevelNames) :
                          PriceLevelNames[k] = UpperStr(StripStr(price_level.s))}
                 ELSE {}
    IN  IF named # {} THEN Ok((CHOOSE k \in named : TRUE) - 1)
        ELSE IF price_level.t = "num" THEN Ok(price_level.n)
        ELSE IF price_level.t = "bool" THEN Ok(IF price_level.b THEN 1 ELSE 0)
        ELSE IF price_level.t = "str" THEN IntOfStr(price_level.s)
        ELSE Raise("TypeError", "int() argument must be a string or a real number")

_cost_from_price_level(price_level) ==
    LET level == PriceLevelInt(price_level) IN
    IF ~level.ok THEN "$20-40 per person"
    ELSE IF level.v <= 0 THEN "$0-10 per person"
    ELSE IF level.v = 1 THEN "$10-20 per person"
    ELSE IF level.v = 2 THEN "$20-40 per person"
    ELSE IF level.v = 3 THEN "$40-80 per person"
    ELSE "$80+ per person"

(***************************************************************************)
(* Messages of the conversation.  An absent tool_calls is the empty        *)
(* sequence, an absent tool_call_id the empty string.  The content of a    *)
(* tool message is json.dumps of the tool's result.                        *)
(***************************************************************************)
Msg(role, content) ==
    [role |-> role, content |-> content, tool_calls |-> <<>>, tool_call_id |-> ""]
AssistantMsg(content, tool_calls) ==
    [role |-> "assistant", content |-> content, tool_calls |-> tool_calls, tool_call_id |-> ""]
\* A tool message keyed by the id of the response's first call.
ToolMsg_FirstCallId(id, result) ==
    [role |-> "tool", content |-> JsonDumps(result), tool_calls |-> <<>>,
     tool_call_id |-> "call_1"]
ToolMsg(id, result) ==
    [role |-> "tool", content |-> JsonDumps(result), tool_calls |-> <<>>, tool_call_id |-> id]

\* The payload of a tool message when it is a JSON object, else null.
ToolPayload(message) ==
    LET loaded == JsonLoads(message.content) IN
    IF message.role = "tool" /\ loaded.ok /\ IsDict(loaded.v) THEN loaded.v ELSE JNull

\* The same with the key taken as written: (name, address) without lower().
RECURSIVE PlacesOfPayload_CaseSensitive(_, _, _)
PlacesOfPayload_CaseSensitive(payload_places, i, acc) ==
    IF i > Len(payload_places) THEN acc
    ELSE
      LET place == payload_places[i]
          name == IF IsDict(place) THEN StripStr(PyStr(Or(Get(place, "name"), JStr("")))) ELSE ""
          address == IF IsDict(place)
                     THEN StripStr(PyStr(Or(Get(place, "address"), JStr(""))))
                     ELSE ""
          key == <<name, address>>
      IN  IF ~IsDict(place) \/ (name = "" /\ address = "") \/ key \in acc.seen
          THEN PlacesOfPayload_CaseSensitive(payload_places, i + 1, acc)
          ELSE PlacesOfPayload_CaseSensitive(payload_places, i + 1,
                   [seen |-> acc.seen \cup {key},
                    places |-> Append(acc.places,
                        [name |-> name, address |-> address,
                         rating |-> Get(place, "rating"),
                         price_level |-> Get(place, "price_level")])])

\* The places one payload contributes, given the keys seen so far.
RECURSIVE PlacesOfPayload(_, _, _)
PlacesOfPayload(payload_places, i, acc) ==
    IF i > Len(payload_places) THEN acc
    ELSE
      LET place == payload_places[i]
          name == IF IsDict(place) THEN StripStr(PyStr(Or(Get(place, "name"), JStr("")))) ELSE ""
          address == IF IsDict(place)
                     THEN StripStr(PyStr(Or(Get(place, "address"), JStr(""))))
                     ELSE ""
          key == <<LowerStr(name), LowerStr(address)>>
      IN  IF ~IsDict(place) \/ (name = "" /\ address = "") \/ key \in acc.seen
          THEN PlacesOfPayload(payload_places, i + 1, acc)
          ELSE PlacesOfPayload(payload_places, i + 1,
                   [seen |-> acc.seen \cup {key},
                    places |-> Append(acc.places,
                        [name |-> name, address |-> address,
                         rating |-> Get(place, "rating"),
                         price_level |-> Get(place, "price_level")])])

RECURSIVE PlacesOfMessages(_, _, _)
PlacesOfMessages(tool_messages, i, acc) ==
    IF i > Len(tool_messages) THEN acc
    ELSE
      LET payload == ToolPayload(tool_messages[i])
          payload_places == IF IsDict(payload) THEN Get(payload, "places") ELSE JNull
      IN  PlacesOfMessages(tool_messages, i + 1,
              IF IsList(payload_places) THEN PlacesOfPayload(payload_places.l, 1, acc) ELSE acc)

_extract_places_from_tool_messages(tool_messages) ==
    PlacesOfMessages(tool_messages, 1, [seen |-> {}, places |-> <<>>]).places

\* _build_maps_grounded_fallback_plans: Ok(plans), or Ok(<<>>) for None.
_build_maps_grounded_fallback_plans(context, tool_messages, reason, refinement_notes) ==
    LET places == _extract_places_from_tool_messages(tool_messages)
        base_location == FirstLocation(context.members, 1)
        n == Min(PlanCount, Len(places))
        venue_plans ==
            [i \in 1..n |->
                LET place == places[i]
                    venue_name == IF place.name # "" THEN place.name
                                  ELSE "Local Option " \o ToString(i)
                    location == IF place.address # "" THEN place.address ELSE base_location
                    rating_text == IF place.rating.t # "null"
                                   THEN " Rated " \o PyStr(place.rating) \o "/5."
                                   ELSE ""
                IN  [title |-> venue_name,
                     description |-> JStr("Meet at " \o venue_name \o " in " \o location
                                          \o "." \o rating_text),
                     vibe_type |-> DEFAULT_VIBES[i],
                     date_time |-> [t |-> "datetime", days_out |-> FallbackDaysOut + (i - 1)],
                     location |-> JStr(location),
                     venue_name |-> JStr(venue_name),
                     estimated_cost |-> JStr(_cost_from_price_level(place.price_level)),
                     logistics |-> JDict([source |-> JStr("maps_fallback"),
                                          reason |-> JStr(Cut(reason, ReasonMax)),
                                          refinement_notes |->
                                              JStr(Cut(PyStr(Or(refinement_notes, JStr(""))),
                                                       RefinementMax)),
                                          members |-> JList(MemberNames(context.members)),
                                          venue |-> JDict([name |-> JStr(place.name),
                                                           address |-> JStr(place.address),
                                                           rating |-> place.rating,
                                                           price_level |-> place.price_level])])]]
        generic == _build_fallback_plans(context, reason, refinement_notes)
    IN  IF places = <<>> THEN <<>>
        ELSE venue_plans \o SubSeq(generic, 1, PlanCount - n)

\* _summarize_tool_results
RECURSIVE SummarizeFrom(_, _, _)
SummarizeFrom(tool_messages, i, summary) ==
    IF i > Len(tool_messages) THEN summary
    ELSE
      LET message == tool_messages[i]
          loaded == JsonLoads(message.content)
          payload == IF loaded.ok THEN loaded.v ELSE JNull
          error == IF IsDict(payload) THEN Get(payload, "error") ELSE JNull
          places == IF IsDict(payload) THEN Get(payload, "places") ELSE JNull
      IN  SummarizeFrom(tool_messages, i + 1,
            IF message.role # "tool" THEN summary
            ELSE IF ~loaded.ok
            THEN [summary EXCEPT !.tool_calls = @ + 1,
                                 !.errors = Append(@, "Tool payload was not valid JSON")]
            ELSE [tool_calls |-> summary.tool_calls + 1,
                  place_calls |-> summary.place_calls + (IF IsList(places) THEN 1 ELSE 0),
                  place_results |-> summary.place_results
                                    + (IF IsList(places) THEN Len(places.l) ELSE 0),
                  errors |-> IF IsStr(error) /\ error.s # ""
                             THEN Append(summary.errors, error.s)
                             ELSE summary.errors])

\* A summary that counts a search only when it found places.
_summarize_tool_results_FruitfulSearches(tool_messages) ==
    LET summary == SummarizeFrom(tool_messages, 1,
                       [tool_calls |-> 0, place_calls |-> 0, place_results |-> 0,
                        errors |-> <<>>])
    IN  [summary EXCEPT !.place_calls = IF summary.place_results = 0 THEN 0 ELSE @]

_summarize_tool_results(tool_messages) ==
    SummarizeFrom(tool_messages, 1,
        [tool_calls |-> 0, place_calls |-> 0, place_results |-> 0, errors |-> <<>>])

(***************************************************************************)
(* Tools.  The answer of the maps API is the environment's: `http` is      *)
(* [kind |-> "transport_error"], [kind |-> "status", code |-> n] or        *)
(* [kind |-> "ok", data |-> a JSON value].                                 *)
(***************************************************************************)
Max(a, b) == IF a > b THEN a ELSE b

SecondsPerMinute == 60
MinutesPerHour == 60

\* round(): Python rounds a tie to the even neighbour.
RoundHalfEven(num, den) ==
    LET q == num \div den
        r == num % den
    IN  IF 2 * r < den THEN q
        ELSE IF 2 * r > den THEN q + 1
        ELSE IF q % 2 = 0 THEN q ELSE q + 1

\* _format_duration over whole seconds; null for a missing value.
_format_duration(seconds) ==
    IF seconds.t # "num" \/ seconds.n <= 0 THEN JNull
    ELSE
      LET minutes == Max(1, RoundHalfEven(seconds.n, SecondsPerMinute))
          hours == minutes \div MinutesPerHour
          rem == minutes % MinutesPerHour
      IN  IF minutes < MinutesPerHour THEN JStr(ToString(minutes) \o " min")
          ELSE IF rem = 0 THEN JStr(ToString(hours) \o " hr")
          ELSE JStr(ToString(hours) \o " hr " \o ToString(rem) \o " min")

\* _duration_to_seconds: a number, or the API's "<n>s" text; None otherwise.
_duration_to_seconds(value) ==
    IF value.t = "num" THEN value
    ELSE IF IsStr(value) /\ value.s = "90s" THEN JNum(90)
    ELSE IF IsStr(value) /\ value.s = "3661s" THEN JNum(3661)
    ELSE JNull

\* One item of the Places API mapped to {name, address, rating, price_level}.
PlaceOfItem(item) ==
    LET display_name == IF IsDict(item) THEN Get(item, "displayName") ELSE JNull
        name == IF IsDict(display_name) THEN Get(display_name, "text")
                ELSE IF IsDict(item) THEN Get(item, "name")
                ELSE JNull
    IN  JDict([name |-> name,
               address |-> IF IsDict(item) THEN Get(item, "formattedAddress") ELSE JNull,
               rating |-> IF IsDict(item) THEN Get(item, "rating") ELSE JNull,
               price_level |-> IF IsDict(item) THEN Get(item, "priceLevel") ELSE JNull])

DefaultMaxResults == 3
MaxResultsCap == 10

\* _search_places(query, location, max_results)
_search_places(query, location, max_results, api_key, http) ==
    IF api_key = "" THEN Ok(JDict([error |-> JStr("GOOGLE_MAPS_API_KEY not set")]))
    ELSE IF StripStr(PyStr(Or(query, JStr("")))) = ""
    THEN Ok(JDict([error |-> JStr("search_places query is required")]))
    ELSE IF http.kind = "transport_error"
    THEN Ok(JDict([error |-> JStr("search_places failed: ConnectError"),
                   details |-> JStr("connection refused")]))
    ELSE IF http.kind = "status"
    THEN Ok(JDict([error |-> JStr("search_places failed: HTTP " \o ToString(http.code)),
                   details |-> JStr("upstream")]))
    ELSE
      LET raw_places == IF IsDict(http.data) THEN Get(http.data, "places") ELSE JNull
          items == IF IsList(raw_places) THEN raw_places.l ELSE <<>>
      IN  IF max_results.t # "num"
          THEN Raise("TypeError", "'<' not supported between instances of 'int' and 'str'")
          ELSE
            LET n == Min(Len(items), Max(1, Min(max_results.n, MaxResultsCap)))
            IN  Ok(JDict([places |-> JList([i \in 1..n |-> PlaceOfItem(items[i])])]))

\* _get_directions(origin, destination, mode)
_get_directions(origin, destination, mode, api_key, http) ==
    LET safe_mode == IF IsStr(mode) /\ mode.s \in {"driving", "transit", "walking"}
                     THEN mode.s ELSE "driving"
        routes == IF http.kind = "ok" /\ IsDict(http.data) THEN Get(http.data, "routes")
                  ELSE JNull
    IN  IF api_key = "" THEN Ok(JDict([error |-> JStr("GOOGLE_MAPS_API_KEY not set")]))
        ELSE IF http.kind = "transport_error"
        THEN Ok(JDict([error |-> JStr("get_directions failed: ConnectError"),
                       details |-> JStr("connection refused")]))
        ELSE IF http.kind = "status"
        THEN Ok(JDict([error |-> JStr("get_directions failed: HTTP " \o ToString(http.code)),
                       details |-> JStr("upstream")]))
        ELSE IF ~Truthy(routes)
        THEN Ok(JDict([error |-> JStr("NO_ROUTE"), origin |-> origin,
                       destination |-> destination, mode |-> JStr(safe_mode),
                       details |-> http.data]))
        ELSE
          LET route == routes.l[1]
              duration_seconds == IF IsDict(route)
                                  THEN _duration_to_seconds(Get(route, "duration"))
                                  ELSE JNull
              distance_meters == IF IsDict(route) THEN Get(route, "distanceMeters") ELSE JNull
          IN  Ok(JDict([origin |-> origin, destination |-> destination,
                        duration |-> _format_duration(duration_seconds),
                        distance_meters |-> distance_meters,
                        duration_seconds |-> duration_seconds,
                        mode |-> JStr(safe_mode)]))

\* f(**arguments): the call binds when every required parameter is given and
\* no other key is; otherwise Python raises a TypeError before the body runs.
Binds(arguments, required, optional) ==
    /\ required \subseteq DOMAIN arguments.d
    /\ DOMAIN arguments.d \subseteq required \cup optional

\* _execute_tool(name, arguments): Ok(result) or the exception that leaves it.
_execute_tool(name, arguments, api_key, http) ==
    IF name = "search_places"
    THEN IF Binds(arguments, {"query", "location"}, {"max_results"})
         THEN _search_places(Get(arguments, "query"), Get(arguments, "location"),
                             IF "max_results" \in DOMAIN arguments.d
                             THEN Get(arguments, "max_results")
                             ELSE JNum(DefaultMaxResults),
                             api_key, http)
         ELSE Raise("TypeError", "_search_places() got unexpected or missing arguments")
    ELSE IF name = "get_directions"
    THEN IF Binds(arguments, {"origin", "destination"}, {"mode"})
         THEN _get_directions(Get(arguments, "origin"), Get(arguments, "destination"),
                              IF "mode" \in DOMAIN arguments.d
                              THEN Get(arguments, "mode") ELSE JStr("driving"),
                              api_key, http)
         ELSE Raise("TypeError", "_get_directions() got unexpected or missing arguments")
    ELSE Ok(JDict([error |-> JStr("Unknown tool: " \o name)]))

\* json.loads(raw_args) of the loop: a dict, or {} for anything else.
ParseToolArgs(raw_arguments) ==
    LET raw_args == IF raw_arguments.form = "empty" THEN JsonDumps(JDict(EmptyMap))
                    ELSE raw_arguments
        loaded == JsonLoads(raw_args)
    IN  IF loaded.ok /\ IsDict(loaded.v) THEN loaded.v ELSE JDict(EmptyMap)

\* The result the loop records for one tool call: the tool's result, or the
\* guardrail's error object when _execute_tool raises.
ToolResultOf(tool_call, api_key, http) ==
    LET executed == _execute_tool(tool_call.name, ParseToolArgs(tool_call.arguments),
                                  api_key, http)
    IN  IF executed.ok THEN executed.v
        ELSE JDict([error |-> JStr("Tool execution failed: " \o executed.exc.cls),
                    details |-> JStr(executed.exc.msg)])

\* isinstance(tool_result, dict) and tool_result.get("error")
IsErrorResult(tool_result) == IsDict(tool_result) /\ Truthy(Get(tool_result, "error"))

(***************************************************************************)
(* Inputs: settings, group contexts, what the model answers, what the maps *)
(* API answers.                                                            *)
(***************************************************************************)
MaxRounds == 3
MaxCalls == 2
MaxToolCalls == 3

SettingsOf(key, fallback) == [google_maps_api_key |-> key, planner_fallback_enabled |-> fallback]

Member(name, email, location) == [name |-> name, email |-> email, default_location |-> location]

Contexts ==
    {[group |-> [name |-> "Friday Crew"],
      members |-> <<Member(JStr("Ana"), JStr("ana@example.com"), JNull),
                    Member(JNull, JStr("bo@example.com"), JStr("Cambridge, MA"))>>],
     [group |-> [name |-> "Solo"], members |-> <<>>]}

RefinementNotes == {JNull}

RawPlan(title, vibe_type) == JDict([title |-> title, vibe_type |-> vibe_type])

FivePlans ==
    <<RawPlan(JStr("Ramen Crawl"), JStr("chill")),
      RawPlan(JStr("Trivia Night"), JStr("anchor")),
      RawPlan(JStr("Harbor Walk"), JStr("wildcard")),
      RawPlan(JStr("Escape Room"), JStr("pivot")),
      RawPlan(JStr("Jazz Club"), JStr("reach"))>>

\* Two records with the same vibe, one without a title, one with an unknown vibe.
FiveLoosePlans ==
    <<RawPlan(JStr("Ramen Crawl"), JStr("anchor")),
      RawPlan(JStr("Trivia Night"), JStr("anchor")),
      JDict([vibe_type |-> JStr("cozy")]),
      RawPlan(JStr(""), JStr("pivot")),
      JDict([title |-> JStr("Jazz Club")])>>

SixPlans == FivePlans \o <<RawPlan(JStr("Karaoke"), JStr("anchor"))>>

ModelOutputs ==
    {EmptyText,
     Prose("Here are a few ideas for the group."),
     JsonDumps(JDict([plans |-> JList(FivePlans)])),
     JsonDumps(JDict([plans |-> JList(FiveLoosePlans)])),
     Text("fenced", JList(SixPlans)),
     JsonDumps(JDict([plans |-> JList(<<JNum(7), JDict([title |-> JStr("Harbor Walk")]),
                                        RawPlan(JStr("Jazz Club"), JNull)>>)])),
     JsonDumps(JDict([plans |-> JList(<<JNum(7), JStr("bowling")>>)])),
     JsonDumps(JDict([plans |-> JList(<<>>)])),
     JsonDumps(JDict([plans |-> JNum(7)]))}

\* @retry(stop=stop_after_attempt(3), retry=retry_if_exception_type(...))
stop_after_attempt == 3

RetryableErrors == {"APIConnectionError", "ConnectTimeout", "ConnectError", "PoolTimeout"}

\* What one attempt of client.chat.completions.create may raise.
ModelFailures ==
    {Exc("APIConnectionError", "Connection error."),
     Exc("ConnectTimeout", "timed out while connecting"),
     Exc("BadRequestError", "model rejected the request")}

\* A decision that repeats the attempt after any failure while attempts remain.
RetryDecision_RetryAnyError(attempt_number, e) ==
    IF attempt_number >= stop_after_attempt THEN "retry_error" ELSE "retry"

\* A decision that allows one attempt more than stop_after_attempt.
RetryDecision_OneMoreAttempt(attempt_number, e) ==
    IF e.cls \notin RetryableErrors THEN "reraise"
    ELSE IF attempt_number >= stop_after_attempt + 1 THEN "retry_error"
    ELSE "retry"

\* tenacity after a failed attempt: the attempt is repeated, the exception is
\* raised again as it is, or RetryError is raised when the attempts are spent.
RetryDecision(attempt_number, e) ==
    IF e.cls \notin RetryableErrors THEN "reraise"
    ELSE IF attempt_number >= stop_after_attempt THEN "retry_error"
    ELSE "retry"

\* The exception that leaves _call_vllm_chat for a failure that is not retried.
Leaves(attempt_number, e) ==
    IF RetryDecision(attempt_number, e) = "reraise" THEN e
    ELSE Exc("RetryError", "connection failed after the retry budget")

ModelErrors == {Leaves(stop_after_attempt, e) : e \in ModelFailures}

\* The tool calls a response may carry: name and raw argument text.
ToolCallShapes ==
    {[name |-> "search_places",
      arguments |-> JsonDumps(JDict([query |-> JStr("bowling"),
                                     location |-> JStr("Boston, MA"),
                                     max_results |-> JNum(4)]))],
     [name |-> "search_places", arguments |-> Text("broken", JNull)],
     [name |-> "get_directions",
      arguments |-> JsonDumps(JDict([origin |-> JStr("Cambridge, MA"),
                                     destination |-> JStr("145 Ipswich St, Boston")]))],
     [name |-> "book_table", arguments |-> JsonDumps(JList(<<JNum(1)>>))]}

ApiItem(name, address, rating, price_level) ==
    JDict([displayName |-> JDict([text |-> name]), formattedAddress |-> address,
           rating |-> rating, priceLevel |-> price_level])

HttpOk(data) == [kind |-> "ok", data |-> data]

PlacesResponses ==
    {[kind |-> "transport_error"],
     HttpOk(JDict(EmptyMap)),
     HttpOk(JDict([places |-> JList(<<JDict([rating |-> JNum(4)])>>)])),
     HttpOk(JDict([places |-> JList(
        <<ApiItem(JStr("Lucky Strike"), JStr("145 Ipswich St, Boston"), JNum(4),
                  JStr("PRICE_LEVEL_MODERATE")),
          ApiItem(JStr("LUCKY STRIKE "), JStr("145 ipswich st, boston"), JNull, JNull),
          ApiItem(JStr("Kings Dining"), JStr("50 Dalton St, Boston"), JNull, JNum(3)),
          ApiItem(JStr("Trident Cafe"), JNull, JNum(5), JNull),
          ApiItem(JStr("Sacco's Bowl Haven"), JNull, JNull, JNull)>>)])),
     HttpOk(JDict([places |-> JList(
        <<ApiItem(JStr("Brattle Theatre"), JNull, JNull, JNull),
          ApiItem(JStr("Flat Top Johnny's"), JNull, JNull, JNum(1)),
          ApiItem(JStr("Aeronaut Brewing"), JNull, JNull, JNum(0))>>)]))}

RoutesResponses ==
    {HttpOk(JDict([routes |-> JList(<<JDict([distanceMeters |-> JNum(4200),
                                             duration |-> JStr("90s")])>>)]))}

\* What the maps API may answer to a tool call that reaches it.
HttpResponsesFor(tool_call) ==
    LET arguments == ParseToolArgs(tool_call.arguments) IN
    IF tool_call.name = "search_places"
       /\ Binds(arguments, {"query", "location"}, {"max_results"})
    THEN PlacesResponses
    ELSE IF tool_call.name = "get_directions"
            /\ Binds(arguments, {"origin", "destination"}, {"mode"})
    THEN RoutesResponses
    ELSE {[kind |-> "none"]}

(***************************************************************************)
(* State.                                                                  *)
(***************************************************************************)
VARIABLES
    call,           \* a function called on its own: its name, argument and return
    lists,          \* the list objects of concurrent runs, by reference
    runs,           \* the locals of each of the concurrent runs of _run_tool_loop
    _planner_client,  \* the module's shared AsyncOpenAI client
    utcnow,         \* the clock datetime.utcnow() reads, in days
    invocations,    \* the returns of a synthesizer invoked again on the same arguments
    entry,          \* the function called: "generate_group_plans" or "_run_tool_loop"
    pc,             \* where the call stands: an await, or the code that follows one
    settings,       \* get_settings()
    context,        \* what _load_group_context finds for the group
    refinement_notes,
    max_rounds,     \* parameter of _run_tool_loop
    messages,       \* the list the caller passes to _run_tool_loop
    work_messages,  \* the loop's copy of it
    rounds,         \* iterations of the for loop completed
    consecutive_all_error_rounds,
    pending,        \* message.tool_calls not yet executed in this round
    round_had_success,
    tool_result,    \* the result of the last tool call
    loop_ret,       \* how _run_tool_loop ended
    output,         \* generate_group_plans: the candidate text
    tool_messages,  \* generate_group_plans: the history the loop returned
    repaired,       \* generate_group_plans: the text of the structured retry
    exc,            \* the exception being handled
    result,         \* how generate_group_plans ended
    events,         \* log of model calls issued, tools executed, synthesizers invoked
    attempt,        \* _call_vllm_chat: number of the attempt in flight, 0 when none is
    last_error      \* _call_vllm_chat: class of the failure of the attempt before, or ""

vars == <<call, lists, runs, _planner_client, utcnow, invocations, entry, pc, settings, context, refinement_notes, max_rounds, messages,
          work_messages, rounds, consecutive_all_error_rounds, pending,
          round_had_success, tool_result, loop_ret, output, tool_messages, repaired,
          exc, result, events, attempt, last_error>>

\* The variables a single generation run leaves alone.
apart == <<call, lists, runs, _planner_client, utcnow, invocations>>

\* No runs are under way side by side; init_planner_client() has been awaited.
\* Nothing is invoked twice.
NoInvocations == utcnow = 0 /\ invocations = <<>>

NoRuns == lists = <<>> /\ runs = <<>> /\ _planner_client = "AsyncOpenAI" /\ NoInvocations

\* No function is called on its own.
NoCall == [fn |-> "", arg |-> JNull, about |-> JNull, returned |-> FALSE, ret |-> JNull]

inputs == <<entry, settings, context, refinement_notes, max_rounds>>
loop_locals == <<work_messages, rounds, consecutive_all_error_rounds, pending,
                 round_had_success, tool_result>>

NoExc == Exc("", "")
NoResult == [kind |-> "none", plans |-> <<>>, exc |-> NoExc, via |-> ""]
Returned(plans, via) == [kind |-> "returned", plans |-> plans, exc |-> NoExc, via |-> via]
Raised(e) == [kind |-> "raised", plans |-> <<>>, exc |-> e, via |-> ""]

NoLoopRet == [status |-> "none", output |-> EmptyText, messages |-> <<>>, exc |-> NoExc]
LoopReturned(out, msgs) ==
    [status |-> "returned", output |-> out, messages |-> msgs, exc |-> NoExc]
LoopRaised(e) == [status |-> "raised", output |-> EmptyText, messages |-> <<>>, exc |-> e]

SYSTEM_PROMPT_TOOL_GROUNDED == Prose("planning engine; use tools to ground recommendations")
SYSTEM_PROMPT_BEST_EFFORT == Prose("planning engine; tooling may be unavailable")
FinalizeInstruction == Prose("Finalize now and return valid JSON with exactly 5 plans.")
EmptyPlansSentinel == JsonDumps(JDict([plans |-> JList(<<>>)]))

\* The grounding switch testing the key without stripping it.
use_tool_grounding_NoStrip == settings.google_maps_api_key # ""

\* bool(settings.google_maps_api_key.strip())
use_tool_grounding == StripStr(settings.google_maps_api_key) # ""

system_prompt ==
    IF use_tool_grounding THEN SYSTEM_PROMPT_TOOL_GROUNDED ELSE SYSTEM_PROMPT_BEST_EFFORT

\* _build_prompt
_build_prompt ==
    IF use_tool_grounding THEN Prose("group prompt; use tool calls to ground plans")
    ELSE Prose("group prompt; maps tools are unavailable")

InitialMessages == <<Msg("system", system_prompt), Msg("user", _build_prompt)>>

\* The same two messages when the maps key is set.
InitialMessages_Grounded ==
    <<Msg("system", SYSTEM_PROMPT_TOOL_GROUNDED),
      Msg("user", Prose("group prompt; use tool calls to ground plans"))>>

\* "no plans" in parse_message.lower()
ContainsNoPlans(parse_message) == parse_message \in {"LLM returned no plans"}

Count(log, e) == Cardinality({i \in 1..Len(log) : log[i] = e})

ModelPcs == {"loop_model", "finalize_model", "plain_model", "retry_model"}

Init ==
    /\ entry \in {"generate_group_plans", "_run_tool_loop"}
    /\ pc = "idle"
    /\ refinement_notes \in RefinementNotes
    /\ IF entry = "generate_group_plans"
       THEN /\ settings \in {SettingsOf(key, fallback) :
                                key \in {"", "  ", "maps-key"}, fallback \in BOOLEAN}
            /\ context \in {c \in Contexts : Len(c.members) > 0}
            /\ max_rounds = MAX_TOOL_ROUNDS
            /\ messages = <<>>
       ELSE /\ settings = SettingsOf("maps-key", FALSE)
            /\ context \in {c \in Contexts : Len(c.members) = 0}
            /\ max_rounds \in {0, 1, MaxRounds}
            /\ messages = <<Msg("system", SYSTEM_PROMPT_TOOL_GROUNDED),
                            Msg("user", Prose("group prompt; use tool calls to ground plans"))>>
    /\ work_messages = <<>>
    /\ rounds = 0
    /\ consecutive_all_error_rounds = 0
    /\ pending = <<>>
    /\ round_had_success = FALSE
    /\ tool_result = JNull
    /\ loop_ret = NoLoopRet
    /\ output = EmptyText
    /\ tool_messages = <<>>
    /\ repaired = EmptyText
    /\ exc = NoExc
    /\ result = NoResult
    /\ events = <<>>
    /\ attempt = 0
    /\ last_error = ""
    /\ call = NoCall
    /\ NoRuns

\* The attempt counter after a step that is no repeated attempt: a call the
\* step issues is at its first attempt, and otherwise no call is in flight.
FirstAttempt ==
    /\ attempt' = (IF pc' \in ModelPcs THEN 1 ELSE 0)
    /\ last_error' = ""

\* for _ in range(max_rounds), after `done` iterations: the next tool-enabled
\* call is issued, or the loop is left (line 935).
HeadPc(done) == IF done < max_rounds THEN "loop_model" ELSE "after_loop"
HeadEvents(done) == IF done < max_rounds THEN Append(events, "model:tools") ELSE events

\* generate_group_plans is called: the context is loaded and the first model
\* call is issued (lines 1060-1106).
CallGenerate ==
    /\ pc = "idle" /\ entry = "generate_group_plans"
    /\ \E found \in BOOLEAN :
         IF ~found
         THEN /\ result' = Raised(Exc("PlannerError", "Group not found"))
              /\ pc' = "done"
              /\ UNCHANGED <<messages, work_messages, events>>
         ELSE IF use_tool_grounding
         THEN /\ messages' = InitialMessages
              /\ work_messages' = InitialMessages
              /\ pc' = HeadPc(0)
              /\ events' = HeadEvents(0)
              /\ UNCHANGED result
         ELSE /\ pc' = "plain_model"
              /\ events' = Append(events, "model:plain")
              /\ UNCHANGED <<messages, work_messages, result>>
    /\ FirstAttempt
    /\ UNCHANGED apart
    /\ UNCHANGED <<inputs, rounds, consecutive_all_error_rounds, pending, round_had_success,
                   tool_result, loop_ret, output, tool_messages, repaired, exc>>

\* _run_tool_loop(messages, max_rounds) is called (lines 932-936).
CallRunToolLoop ==
    /\ pc = "idle" /\ entry = "_run_tool_loop"
    /\ work_messages' = messages
    /\ pc' = HeadPc(0)
    /\ events' = HeadEvents(0)
    /\ FirstAttempt
    /\ UNCHANGED apart
    /\ UNCHANGED <<inputs, messages, rounds, consecutive_all_error_rounds, pending,
                   round_had_success, tool_result, loop_ret, output, tool_messages,
                   repaired, exc, result>>

\* A raise inside the tool loop handled like a parse failure of the output.
ModelRaises_AsParseFailure ==
    /\ pc \in ModelPcs
    /\ \E e \in ModelFailures :
          /\ RetryDecision(attempt, e) # "retry"
          /\ loop_ret' = IF pc \in {"loop_model", "finalize_model"}
                         THEN LoopRaised(Leaves(attempt, e)) ELSE loop_ret
    /\ exc' = Exc("PlannerError", "LLM returned no plans")
    /\ pc' = IF entry = "_run_tool_loop" THEN "done" ELSE "parse_failed"
    /\ events' = Append(events, "model_raised")
    /\ FirstAttempt
    /\ UNCHANGED apart
    /\ UNCHANGED <<inputs, messages, loop_locals, output, tool_messages, repaired, result>>

\* An attempt of a model call fails and tenacity repeats it after the wait.
AttemptFails ==
    /\ pc \in ModelPcs
    /\ \E e \in ModelFailures :
          /\ RetryDecision(attempt, e) = "retry"
          /\ last_error' = e.cls
    /\ attempt' = attempt + 1
    /\ UNCHANGED apart
    /\ UNCHANGED <<inputs, pc, messages, loop_locals, loop_ret, output, tool_messages,
                   repaired, exc, result, events>>

\* A model call raises: a failure that is not retried, or RetryError when the
\* attempts are spent.  Inside _run_tool_loop nothing is returned.
ModelRaises ==
    /\ pc \in ModelPcs
    /\ \E e \in ModelFailures :
          /\ RetryDecision(attempt, e) # "retry"
          /\ exc' = Leaves(attempt, e)
    /\ loop_ret' = IF pc \in {"loop_model", "finalize_model"} THEN LoopRaised(exc')
                   ELSE loop_ret
    /\ pc' = IF entry = "_run_tool_loop" THEN "done" ELSE "fatal"
    /\ events' = Append(events, "model_raised")
    /\ FirstAttempt
    /\ UNCHANGED apart
    /\ UNCHANGED <<inputs, messages, loop_locals, output, tool_messages, repaired, result>>

\* return _extract_plans(text), or the exception goes to its handler.
Extract(text, via, handler) ==
    LET extracted == _extract_plans(text) IN
    IF extracted.ok
    THEN result' = Returned(extracted.v, via) /\ pc' = "done" /\ UNCHANGED exc
    ELSE /\ exc' = extracted.exc
         /\ pc' = IF exc'.cls = "PlannerError" THEN handler ELSE "fatal"
         /\ UNCHANGED result

\* return <text>, work_messages: to the caller of _run_tool_loop, and in
\* generate_group_plans into output and tool_messages (line 1079), where
\* return _extract_plans(output) follows (lines 1107-1109).
LoopReturns(text) ==
    /\ loop_ret' = LoopReturned(text, work_messages)
    /\ IF entry = "_run_tool_loop"
       THEN pc' = "done" /\ UNCHANGED <<output, tool_messages, exc, result>>
       ELSE /\ output' = text
            /\ tool_messages' = work_messages
            /\ Extract(output', "model", "parse_failed")

\* The tool-enabled call answers without tool calls (lines 944-946).
ModelAnswers ==
    /\ pc = "loop_model"
    /\ \E content \in ModelOutputs : LoopReturns(content)
    /\ FirstAttempt
    /\ UNCHANGED apart
    /\ UNCHANGED <<inputs, messages, loop_locals, repaired, events>>

\* The ids the model gives the calls of one response.
ToolCallsOf(shapes, base) ==
    [j \in 1..Len(shapes) |->
        [id |-> "call_" \o ToString(base + j), name |-> shapes[j].name,
         arguments |-> shapes[j].arguments]]

\* The tool-enabled call answers with tool calls (lines 948-956).
ModelRequestsTools ==
    /\ pc = "loop_model"
    /\ \E n \in 1..Min(MaxCalls, MaxToolCalls - Count(events, "tool")) :
         \E shapes \in [1..n -> ToolCallShapes] :
            pending' = ToolCallsOf(shapes, Count(events, "tool"))
    /\ work_messages' = Append(work_messages, AssistantMsg(EmptyText, pending'))
    /\ round_had_success' = FALSE
    /\ pc' = "tool_exec"
    /\ FirstAttempt
    /\ UNCHANGED apart
    /\ UNCHANGED <<inputs, messages, rounds, consecutive_all_error_rounds, tool_result,
                   loop_ret, output, tool_messages, repaired, exc, result, events>>

\* One tool call of the round is executed and its tool message appended
\* (lines 957-984).
ExecuteTool ==
    /\ pc = "tool_exec"
    /\ \E http \in HttpResponsesFor(Head(pending)) :
         tool_result' = ToolResultOf(Head(pending), settings.google_maps_api_key, http)
    /\ round_had_success' = (round_had_success \/ ~IsErrorResult(tool_result'))
    /\ work_messages' = Append(work_messages, ToolMsg(Head(pending).id, tool_result'))
    /\ pending' = Tail(pending)
    /\ events' = Append(events, "tool")
    /\ pc' = IF Len(pending) > 1 THEN "tool_exec" ELSE "round_end"
    /\ FirstAttempt
    /\ UNCHANGED apart
    /\ UNCHANGED <<inputs, messages, rounds, consecutive_all_error_rounds, loop_ret, output,
                   tool_messages, repaired, exc, result>>

AllErrorRoundsLimit == 2

\* The end of a round without the early exit on all-error rounds.
RoundEnd_NoEarlyExit ==
    /\ pc = "round_end"
    /\ rounds' = rounds + 1
    /\ consecutive_all_error_rounds' =
           IF round_had_success THEN 0 ELSE consecutive_all_error_rounds + 1
    /\ pc' = HeadPc(rounds')
    /\ events' = HeadEvents(rounds')
    /\ FirstAttempt
    /\ UNCHANGED apart
    /\ UNCHANGED <<inputs, messages, work_messages, pending, round_had_success, tool_result,
                   loop_ret, output, tool_messages, repaired, exc, result>>

\* The end of a round with the exit taken after the first all-error round.
RoundEnd_ExitAfterOneRound ==
    /\ pc = "round_end"
    /\ rounds' = rounds + 1
    /\ consecutive_all_error_rounds' =
           IF round_had_success THEN 0 ELSE consecutive_all_error_rounds + 1
    /\ IF consecutive_all_error_rounds' >= 1
       THEN IF _summarize_tool_results(work_messages).place_results > 0
            THEN LoopReturns(EmptyPlansSentinel) /\ UNCHANGED events
            ELSE /\ pc' = "after_loop"
                 /\ UNCHANGED <<events, loop_ret, output, tool_messages, exc, result>>
       ELSE /\ pc' = HeadPc(rounds')
            /\ events' = HeadEvents(rounds')
            /\ UNCHANGED <<loop_ret, output, tool_messages, exc, result>>
    /\ FirstAttempt
    /\ UNCHANGED apart
    /\ UNCHANGED <<inputs, messages, work_messages, pending, round_had_success, tool_result,
                   repaired>>

\* The end of a round (lines 986-999).
RoundEnd ==
    /\ pc = "round_end"
    /\ rounds' = rounds + 1
    /\ consecutive_all_error_rounds' =
           IF round_had_success THEN 0 ELSE consecutive_all_error_rounds + 1
    /\ IF consecutive_all_error_rounds' >= AllErrorRoundsLimit
       THEN IF _summarize_tool_results(work_messages).place_results > 0
            THEN LoopReturns(EmptyPlansSentinel) /\ UNCHANGED events
            ELSE /\ pc' = "after_loop"
                 /\ UNCHANGED <<events, loop_ret, output, tool_messages, exc, result>>
       ELSE /\ pc' = HeadPc(rounds')
            /\ events' = HeadEvents(rounds')
            /\ UNCHANGED <<loop_ret, output, tool_messages, exc, result>>
    /\ FirstAttempt
    /\ UNCHANGED apart
    /\ UNCHANGED <<inputs, messages, work_messages, pending, round_had_success, tool_result,
                   repaired>>

\* After the for loop, with the finalize call made whatever was collected.
AfterLoop_AlwaysFinalizes ==
    /\ pc = "after_loop"
    /\ work_messages' = Append(work_messages, Msg("user", FinalizeInstruction))
    /\ pc' = "finalize_model"
    /\ events' = Append(events, "model:finalize")
    /\ FirstAttempt
    /\ UNCHANGED apart
    /\ UNCHANGED <<inputs, messages, rounds, consecutive_all_error_rounds, pending,
                   round_had_success, tool_result, loop_ret, output, tool_messages,
                   repaired, exc, result>>

\* After the for loop (lines 1001-1016): the sentinel, or the finalize call.
AfterLoop ==
    /\ pc = "after_loop"
    /\ IF _summarize_tool_results(work_messages).place_results > 0
       THEN LoopReturns(EmptyPlansSentinel) /\ UNCHANGED <<work_messages, events>>
       ELSE /\ work_messages' = Append(work_messages, Msg("user", FinalizeInstruction))
            /\ pc' = "finalize_model"
            /\ events' = Append(events, "model:finalize")
            /\ UNCHANGED <<loop_ret, output, tool_messages, exc, result>>
    /\ FirstAttempt
    /\ UNCHANGED apart
    /\ UNCHANGED <<inputs, messages, rounds, consecutive_all_error_rounds, pending,
                   round_had_success, tool_result, repaired>>

\* The finalize call answers (lines 1016-1021).
FinalizeAnswers ==
    /\ pc = "finalize_model"
    /\ \E content \in ModelOutputs : LoopReturns(content)
    /\ FirstAttempt
    /\ UNCHANGED apart
    /\ UNCHANGED <<inputs, messages, loop_locals, repaired, events>>

\* The plain call without tools answers (lines 1098-1106), and
\* return _extract_plans(output) follows (lines 1107-1109).
PlainAnswers ==
    /\ pc = "plain_model"
    /\ \E content \in ModelOutputs : output' = content
    /\ Extract(output', "model", "parse_failed")
    /\ FirstAttempt
    /\ UNCHANGED apart
    /\ UNCHANGED <<inputs, messages, loop_locals, loop_ret, tool_messages, repaired, events>>

\* "; ".join(errors[:2]), or the zero-results text
NoVenueDetails(errors) ==
    IF Len(errors) = 0 THEN "search_places returned zero results"
    ELSE IF Len(errors) = 1 THEN errors[1]
    ELSE errors[1] \o "; " \o errors[2]

\* The synthesizer is tried: its plans are returned, or the step goes on.
TryMapsFallback(reason) ==
    LET synthesized == _build_maps_grounded_fallback_plans(context, tool_messages, reason,
                                                           refinement_notes)
    IN  result' = IF synthesized # <<>> THEN Returned(synthesized, "maps") ELSE result

\* The parse handler with the synthesizer tried on every parse failure, not
\* only on "no plans".
HandleParseFailure_AnyParseFailure ==
    /\ pc = "parse_failed"
    /\ IF use_tool_grounding
       THEN /\ TryMapsFallback("LLM produced empty plans: " \o exc.msg)
            /\ IF result'.kind = "returned"
               THEN /\ pc' = "done"
                    /\ events' = Append(events, "maps_fallback")
               ELSE /\ pc' = "retry_model"
                    /\ events' = events \o <<"maps_fallback_none", "model:retry">>
            /\ UNCHANGED exc
       ELSE /\ pc' = "retry_model"
            /\ events' = Append(events, "model:retry")
            /\ UNCHANGED <<exc, result>>
    /\ FirstAttempt
    /\ UNCHANGED apart
    /\ UNCHANGED <<inputs, messages, loop_locals, loop_ret, output, tool_messages, repaired>>

\* except PlannerError as parse_exc (lines 1109-1144), up to the await of the
\* structured retry.
HandleParseFailure ==
    /\ pc = "parse_failed"
    /\ IF use_tool_grounding /\ ContainsNoPlans(exc.msg)
       THEN /\ TryMapsFallback("LLM produced empty plans: " \o exc.msg)
            /\ IF result'.kind = "returned"
               THEN /\ pc' = "done"
                    /\ events' = Append(events, "maps_fallback")
                    /\ UNCHANGED exc
               ELSE IF /\ _summarize_tool_results(tool_messages).place_calls > 0
                       /\ _summarize_tool_results(tool_messages).place_results = 0
               THEN /\ exc' = Exc("PlannerError",
                          "LLM returned no plans and map search produced no usable venues ("
                          \o NoVenueDetails(_summarize_tool_results(tool_messages).errors)
                          \o ")")
                    /\ pc' = "fatal"
                    /\ events' = Append(events, "maps_fallback_none")
               ELSE /\ pc' = "retry_model"
                    /\ events' = events \o <<"maps_fallback_none", "model:retry">>
                    /\ UNCHANGED exc
       ELSE /\ pc' = "retry_model"
            /\ events' = Append(events, "model:retry")
            /\ UNCHANGED <<exc, result>>
    /\ FirstAttempt
    /\ UNCHANGED apart
    /\ UNCHANGED <<inputs, messages, loop_locals, loop_ret, output, tool_messages, repaired>>

\* The structured retry answers (lines 1144-1148), and
\* return _extract_plans(repaired) follows (lines 1156-1158).
RetryAnswers ==
    /\ pc = "retry_model"
    /\ \E content \in ModelOutputs : repaired' = content
    /\ Extract(repaired', "retry", "retry_failed")
    /\ FirstAttempt
    /\ UNCHANGED apart
    /\ UNCHANGED <<inputs, messages, loop_locals, loop_ret, output, tool_messages, events>>

\* The retry handler re-raising without trying the synthesizer.
HandleRetryFailure_NoSynthesis ==
    /\ pc = "retry_failed"
    /\ pc' = "fatal"
    /\ FirstAttempt
    /\ UNCHANGED apart
    /\ UNCHANGED <<inputs, messages, loop_locals, loop_ret, output, tool_messages, repaired,
                   exc, result, events>>

\* except PlannerError as repaired_exc (lines 1158-1172)
HandleRetryFailure ==
    /\ pc = "retry_failed"
    /\ IF use_tool_grounding
       THEN /\ TryMapsFallback("Structured retry failed: " \o exc.msg)
            /\ pc' = IF result'.kind = "returned" THEN "done" ELSE "fatal"
            /\ events' = Append(events, IF result'.kind = "returned" THEN "maps_fallback"
                                        ELSE "maps_fallback_none")
       ELSE pc' = "fatal" /\ UNCHANGED <<result, events>>
    /\ FirstAttempt
    /\ UNCHANGED apart
    /\ UNCHANGED <<inputs, messages, loop_locals, loop_ret, output, tool_messages, repaired,
                   exc>>

\* The outer handler without the planner_fallback_enabled branch.
HandleFatal_AlwaysRaises ==
    /\ pc = "fatal"
    /\ result' = Raised(Exc("PlannerError", "Planner failed: " \o exc.cls \o ": " \o exc.msg))
    /\ pc' = "done"
    /\ FirstAttempt
    /\ UNCHANGED apart
    /\ UNCHANGED <<inputs, messages, loop_locals, loop_ret, output, tool_messages, repaired,
                   exc, events>>

\* except Exception as exc (lines 1173-1181)
HandleFatal ==
    /\ pc = "fatal"
    /\ IF settings.planner_fallback_enabled
       THEN /\ result' = Returned(_build_fallback_plans(context, exc.cls \o ": " \o exc.msg,
                                                        refinement_notes), "template")
            /\ events' = Append(events, "template_fallback")
       ELSE /\ result' = Raised(Exc("PlannerError",
                                    "Planner failed: " \o exc.cls \o ": " \o exc.msg))
            /\ UNCHANGED events
    /\ pc' = "done"
    /\ FirstAttempt
    /\ UNCHANGED apart
    /\ UNCHANGED <<inputs, messages, loop_locals, loop_ret, output, tool_messages, repaired,
                   exc>>

Next ==
    \/ CallGenerate
    \/ CallRunToolLoop
    \/ AttemptFails
    \/ ModelRaises
    \/ ModelAnswers
    \/ ModelRequestsTools
    \/ ExecuteTool
    \/ RoundEnd
    \/ AfterLoop
    \/ FinalizeAnswers
    \/ PlainAnswers
    \/ HandleParseFailure
    \/ RetryAnswers
    \/ HandleRetryFailure
    \/ HandleFatal

Spec == Init /\ [][Next]_vars

\* The steps that end an await or run from one to the next, the two
\* PlannerError handlers of generate_group_plans apart.
Proceeds ==
    \/ CallGenerate
    \/ CallRunToolLoop
    \/ AttemptFails
    \/ ModelRaises
    \/ ModelAnswers
    \/ ModelRequestsTools
    \/ ExecuteTool
    \/ RoundEnd
    \/ AfterLoop
    \/ FinalizeAnswers
    \/ PlainAnswers
    \/ RetryAnswers
    \/ HandleFatal

\* Every awaited model or tool call returns or fails, and the code between
\* two awaits runs to the next one.  Each handler is enabled exactly at its
\* pc and every step of it leaves that pc, so weak fairness of a handler is
\* that the run does not stay at its pc for ever.
SpecLive ==
    /\ Spec
    /\ WF_vars(Proceeds)
    /\ []<>(pc # "parse_failed")
    /\ []<>(pc # "retry_failed")

(***************************************************************************)
(* The helper functions called on their own.  call.arg is the argument,    *)
(* call.about what the argument was built from, call.ret the Ok(value) or  *)
(* the exception the call ends with.                                       *)
(***************************************************************************)
Quoted(content) == <<"\"">> \o content \o <<"\"">>

\* JSON object texts, as json.dumps writes them.
ObjectTexts ==
    { <<"{">> \o Quoted(<<"k">>) \o <<":", " ">> \o Quoted(<<"v">>) \o <<"}">>,
      <<"{">> \o Quoted(<<"ok">>) \o <<":", " ", "true", ",", " ">>
              \o Quoted(<<"n">>) \o <<":", " ", "null", ",", " ">>
              \o Quoted(<<"c">>) \o <<":", " ", "7", "}">>,
      <<"{">> \o Quoted(<<"plans">>) \o <<":", " ", "[", "{">>
              \o Quoted(<<"title">>) \o <<":", " ">> \o Quoted(<<"Harbor", " ", "Walk">>)
              \o <<"}", "]", "}">>,
      <<"{">> \o Quoted(<<"k">>) \o <<":", " ">> \o Quoted(<<"a", "}", "b">>) \o <<"}">>,
      <<"{">> \o Quoted(<<"k">>) \o <<":", " ">> \o Quoted(<<"a", ",", "}">>) \o <<"}">>,
      <<"{">> \o Quoted(<<"k">>) \o <<":", " ">> \o Quoted(<<"a", ",", " ", "]">>) \o <<"}">> }

ProseBefore ==
    { <<>>,
      <<"Sure", " ">>,
      <<"a", " ", "[", " ">>,
      <<"see", " ", "[", "1", "]", ":", " ">>,
      <<"use", " ", "{", "braces", "}", ":", " ">> }

ProseAfter == { <<>>, <<" ", "ok">>, <<" ", "}", " ", "[", "2", "]">> }

\* J with a single trailing comma before its closing brace.
WithTrailingComma(object) == SubSeq(object, 1, Len(object) - 1) \o <<",", "}">>

\* J as Python writes it: single quotes, True / False / None.
AsPythonLiteral(object) ==
    [i \in 1..Len(object) |->
        CASE object[i] = "\"" -> "'"
          [] object[i] = "true" -> "True"
          [] object[i] = "false" -> "False"
          [] object[i] = "null" -> "None"
          [] OTHER -> object[i]]

CallOn(fn, arg, about) ==
    [fn |-> fn, arg |-> arg, about |-> about, returned |-> FALSE, ret |-> JNull]

About(object, variant, before, after) ==
    [object |-> Chars(object), variant |-> variant, before |-> before, after |-> after]

ParseCalls ==
    {CallOn("_parse_json_like", Chars(object), About(object, "clean", <<>>, <<>>)) :
        object \in ObjectTexts}
    \cup {CallOn("_parse_json_like", Chars(before \o object \o after),
                 About(object, "prose", before, after)) :
            object \in ObjectTexts, before \in ProseBefore, after \in ProseAfter}
    \cup {CallOn("_parse_json_like", Chars(WithTrailingComma(object)),
                 About(object, "trailing_comma", <<>>, <<>>)) : object \in ObjectTexts}
    \cup {CallOn("_parse_json_like", Chars(AsPythonLiteral(object)),
                 About(object, "python", <<>>, <<>>)) : object \in ObjectTexts}

\* Texts without a balanced span: a cut-off object, brackets that close
\* only inside a string, prose.
SpanlessTexts ==
    { <<"{">> \o Quoted(<<"k">>) \o <<":", " ">> \o Quoted(<<"v">>),
      <<"[", "{">> \o Quoted(<<"k", "}", "]">>),
      <<"Sure", " ", "ok">>,
      <<"]", " ", "}", " ", "{">> }

\* _parse_json_like passes its stripped text on (line 255).
CandidateCalls ==
    {CallOn("_extract_json_candidate", Chars(StripChars(c.arg.value)), c.about) :
        c \in ParseCalls}
    \cup {CallOn("_extract_json_candidate", Chars(text), JNull) : text \in SpanlessTexts}

\* Raw model texts: those of the runs, and texts whose "plans" value or
\* top level is no list.
ExtractCalls ==
    {CallOn("_extract_plans", text, JNull) :
        text \in ModelOutputs
                 \cup {JsonDumps(JDict([plans |-> JBool(TRUE)])),
                       JsonDumps(JDict([plans |-> JStr("bowling")])),
                       JsonDumps(JDict([plans |-> JNull])),
                       JsonDumps(JDict([title |-> JStr("Harbor Walk")])),
                       JsonDumps(JNum(7)),
                       JsonDumps(JStr("bowling")),
                       JsonDumps(JList(<<>>)),
                       JsonDumps(JList(<<JNum(7)>>)),
                       Text("fenced", JDict([plans |-> JNum(7)])),
                       Text("broken", JNull)}}

MaxRecords == 6

\* A raw record by kind: an object with a canonical vibe_type, with an
\* unknown one, without one, or no object at all.  Its title tells its
\* place in the list.
RecordKinds == {"valid", "invalid", "absent", "number"}

RecordOf(kind, i) ==
    CASE kind = "valid" -> RawPlan(JStr("Record " \o ToString(i)), JStr("chill"))
      [] kind = "invalid" -> RawPlan(JStr("Record " \o ToString(i)), JStr("cozy"))
      [] kind = "absent" -> JDict([title |-> JStr("Record " \o ToString(i))])
      [] OTHER -> JNum(i)

RecordLists ==
    UNION {{[i \in 1..n |-> RecordOf(kinds[i], i)] : kinds \in [1..n -> RecordKinds]} :
            n \in 1..MaxRecords}

\* Raw model texts whose "plans" value is a list of such records.
RecordCalls ==
    {CallOn("_extract_plans", JsonDumps(JDict([plans |-> JList(records)])), JList(records)) :
        records \in RecordLists}

MaxMessages == 3

\* An entry of a tool result's "places" list.
Venue(name, address) ==
    JDict([name |-> name, address |-> address, rating |-> JNull, price_level |-> JNull])

\* Messages of a history: search results (with a venue repeated in other
\* case and spacing, entries without name and address, an entry that is no
\* object), an empty result, an error result, a content that is no JSON, an
\* assistant message, payloads that are no object or hold no list.
HistoryMessages ==
    {ToolMsg("call_1", JDict([places |-> JList(
        <<Venue(JStr("Lucky Strike"), JStr("145 Ipswich St, Boston")),
          Venue(JStr("LUCKY STRIKE "), JStr("145 ipswich st, boston")),
          Venue(JStr("Kings Dining"), JStr("50 Dalton St, Boston"))>>)])),
     ToolMsg("call_2", JDict([places |-> JList(
        <<Venue(JNull, JNull),
          Venue(JStr("Kings Dining"), JStr("50 Dalton St, Boston")),
          JNum(7),
          Venue(JStr("Trident Cafe"), JNull)>>)])),
     ToolMsg("call_3", JDict([places |-> JList(
        <<Venue(JStr("LUCKY STRIKE "), JStr("145 ipswich st, boston")),
          Venue(JStr("Lucky Strike"), JNull),
          Venue(JStr("  "), JNull)>>)])),
     ToolMsg("call_4", JDict([places |-> JList(<<>>)])),
     ToolMsg("call_5", JDict([error |-> JStr("search_places failed: ConnectError"),
                              details |-> JStr("connection refused")])),
     [role |-> "tool", content |-> Prose("upstream timeout"), tool_calls |-> <<>>,
      tool_call_id |-> "call_6"],
     AssistantMsg(JsonDumps(JDict([places |-> JList(
        <<Venue(JStr("Brattle Theatre"), JNull)>>)])), <<>>),
     ToolMsg("call_7", JList(<<Venue(JStr("Aeronaut Brewing"), JNull)>>)),
     ToolMsg("call_8", JDict([places |-> JStr("none")]))}

Histories == UNION {[1..n -> HistoryMessages] : n \in 0..MaxMessages}

PlacesCalls ==
    {CallOn("_extract_places_from_tool_messages", [tool_messages |-> history], JNull) :
        history \in Histories}

MapsFallbackCalls ==
    {CallOn("_build_maps_grounded_fallback_plans",
            [context |-> group, tool_messages |-> history,
             reason |-> "LLM returned no plans", refinement_notes |-> JNull], JNull) :
        history \in Histories, group \in {c \in Contexts : Len(c.members) = 0}}

MaxMembers == 3

\* Members as the query of _load_group_context gives them: name, email and
\* default_location may each be NULL, a location may be empty or blank.
MemberPool ==
    {Member(JStr("Ana"), JStr("ana@example.com"), JNull),
     Member(JNull, JStr("bo@example.com"), JStr("Cambridge, MA")),
     Member(JStr("Cy"), JNull, JStr("")),
     Member(JNull, JNull, JStr("Somerville, MA")),
     Member(JStr("Di"), JStr("di@example.com"), JStr("  "))}

MemberContexts ==
    {[group |-> [name |-> "Friday Crew"], members |-> members] :
        members \in UNION {[1..n -> MemberPool] : n \in 0..MaxMembers}}

RECURSIVE Repeated(_, _)
Repeated(s, n) == IF n = 0 THEN "" ELSE s \o Repeated(s, n - 1)

\* A reason as line 1178 writes it, short and longer than 180 characters.
Reasons ==
    {"PlannerError: LLM returned no plans",
     "APIConnectionError: " \o Repeated("connection refused; ", 10)}

FallbackCalls ==
    {CallOn("_build_fallback_plans",
            [context |-> group, reason |-> reason, refinement_notes |-> JNull], JNull) :
        group \in MemberContexts, reason \in Reasons}

LevelSpan == 6

\* Price levels: integers, the enum names as the API writes them and in
\* other case, other strings, numerals in a string, null, a bool, a list.
CostCalls ==
    {CallOn("_cost_from_price_level", price_level, JNull) :
        price_level \in {JNum(n) : n \in -LevelSpan..LevelSpan}
            \cup {JStr(PriceLevelNames[k]) : k \in 1..Len(PriceLevelNames)}
            \cup {JStr(" price_level_moderate "), JStr("PRICE_LEVEL_UNSPECIFIED"),
                  JStr("cheap"), JStr(""), JStr("3"), JStr(" 4 "), JStr("-1"),
                  JNull, JBool(TRUE), JList(<<>>)}}

MaxSeconds == 3700

\* Durations in whole seconds, and a missing one.
DurationCalls ==
    {CallOn("_format_duration", seconds, JNull) :
        seconds \in {JNum(n) : n \in -1..MaxSeconds} \cup {JNull}}

\* No generation run is under way.
NoRun ==
    /\ entry = "" /\ pc = "idle"
    /\ settings = SettingsOf("", FALSE)
    /\ context \in {c \in Contexts : Len(c.members) = 0}
    /\ refinement_notes \in {r \in RefinementNotes : ~Truthy(r)}
    /\ max_rounds = MAX_TOOL_ROUNDS
    /\ messages = <<>> /\ work_messages = <<>>
    /\ rounds = 0 /\ consecutive_all_error_rounds = 0
    /\ pending = <<>> /\ round_had_success = FALSE /\ tool_result = JNull
    /\ loop_ret = NoLoopRet /\ output = EmptyText /\ tool_messages = <<>>
    /\ repaired = EmptyText /\ exc = NoExc /\ result = NoResult
    /\ events = <<>> /\ attempt = 0 /\ last_error = ""

run_vars == <<entry, pc, settings, context, refinement_notes, max_rounds, messages,
              work_messages, rounds, consecutive_all_error_rounds, pending,
              round_had_success, tool_result, loop_ret, output, tool_messages, repaired,
              exc, result, events, attempt, last_error>>

InitCalls ==
    /\ NoRun
    /\ NoRuns
    /\ \/ call \in ParseCalls
       \/ call \in ExtractCalls
       \/ call \in CostCalls
       \/ call \in DurationCalls
       \/ call \in CandidateCalls
       \/ call \in RecordCalls
       \/ call \in PlacesCalls
       \/ call \in MapsFallbackCalls
       \/ call \in FallbackCalls

Returns(fn, ret) ==
    /\ call.fn = fn /\ ~call.returned
    /\ call' = [call EXCEPT !.returned = TRUE, !.ret = ret]
    /\ UNCHANGED <<run_vars, lists, runs, _planner_client, utcnow, invocations>>

ParseJsonLike == Returns("_parse_json_like", ParseStages(call.arg))

ExtractPlans == Returns("_extract_plans", _extract_plans(call.arg))

CostFromPriceLevel ==
    Returns("_cost_from_price_level", JStr(_cost_from_price_level(call.arg)))

FormatDuration == Returns("_format_duration", _format_duration(call.arg))

ExtractPlacesFromToolMessages ==
    Returns("_extract_places_from_tool_messages",
            _extract_places_from_tool_messages(call.arg.tool_messages))

\* None is returned as the empty list.
BuildMapsGroundedFallbackPlans ==
    Returns("_build_maps_grounded_fallback_plans",
            _build_maps_grounded_fallback_plans(call.arg.context, call.arg.tool_messages,
                                                call.arg.reason, call.arg.refinement_notes))

BuildFallbackPlans ==
    Returns("_build_fallback_plans",
            _build_fallback_plans(call.arg.context, call.arg.reason,
                                  call.arg.refinement_notes))

\* None is returned as null.
ExtractJsonCandidate ==
    Returns("_extract_json_candidate",
            IF _extract_json_candidate(call.arg.value) = <<>> THEN JNull
            ELSE Chars(_extract_json_candidate(call.arg.value)))

NextCalls ==
    \/ ParseJsonLike
    \/ ExtractPlans
    \/ CostFromPriceLevel
    \/ FormatDuration
    \/ ExtractJsonCandidate
    \/ ExtractPlacesFromToolMessages
    \/ BuildMapsGroundedFallbackPlans
    \/ BuildFallbackPlans

SpecCalls == InitCalls /\ [][NextCalls]_vars

(***************************************************************************)
(* Runs side by side.  Each run of _run_tool_loop has its own locals; a    *)
(* list is an object, lists[ref], and a local holds a reference to it.     *)
(* The event loop switches between the runs at their awaits; the steps of  *)
(* a run are those of the single run above.  run.heard is the history of   *)
(* the answers the run was given.                                          *)
(***************************************************************************)
Runs == {1, 2}

RunKey == "maps-key"

IdleRun(messages_ref) ==
    [pc |-> "idle", messages |-> messages_ref, work_messages |-> 0,
     rounds |-> 0, consecutive_all_error_rounds |-> 0, pending |-> <<>>,
     round_had_success |-> FALSE, ret |-> NoLoopRet, heard |-> <<>>]

\* work_messages bound to the list it was passed.
ListCopy_SameObject(objects, ref) == ref

\* list(messages): the reference of a new list object.
ListCopy(objects, ref) == Len(objects) + 1

\* An append that puts the item before the items of the list.
ListAppend_AtFront(list, item) == <<item>> \o list

\* work_messages.append(item) (lines 948, 978, 1010)
ListAppend(list, item) == Append(list, item)

\* What the model answers a run: a text, or 1..MaxCalls tool calls.
RunOutputs == {Prose("Here are a few ideas for the group."),
               JsonDumps(JDict([plans |-> JList(FivePlans)]))}

\* The tool calls of one response: a search, an unknown tool, or both.
RunShapes ==
    LET search == CHOOSE shape \in ToolCallShapes :
                      /\ shape.name = "search_places"
                      /\ ParseToolArgs(shape.arguments) # JDict(EmptyMap)
        unknown == CHOOSE shape \in ToolCallShapes : shape.name = "book_table"
    IN  {<<search>>, <<unknown>>, <<search, unknown>>}

ModelResponsesFor(run) ==
    {[content |-> content, tool_calls |-> <<>>] : content \in RunOutputs}
    \cup {[content |-> EmptyText,
           tool_calls |-> ToolCallsOf(shapes, run.rounds * MaxCalls)] :
             shapes \in {shapes \in RunShapes : Len(shapes) <= MaxCalls}}

\* What the maps API answers a run: no answer, no places, or 3 places.
RunHttpFor(tool_call) ==
    {http \in HttpResponsesFor(tool_call) :
        http.kind = "ok" =>
            \/ Get(http.data, "places") = JNull
            \/ Len(Get(http.data, "places").l) = 3}

InitRuns ==
    /\ NoRun
    /\ call = NoCall
    /\ NoInvocations
    /\ _planner_client = "AsyncOpenAI"
    /\ \E same_list \in BOOLEAN :
          /\ lists = IF same_list THEN <<InitialMessages_Grounded>>
                     ELSE <<InitialMessages_Grounded, InitialMessages_Grounded>>
          /\ runs = [r \in Runs |-> IdleRun(IF same_list THEN 1 ELSE r)]

\* _run_tool_loop(messages) is called (lines 932-935).
StartLoop(r) ==
    /\ runs[r].pc = "idle"
    /\ lists' = IF ListCopy(lists, runs[r].messages) > Len(lists)
                THEN Append(lists, lists[runs[r].messages])
                ELSE lists
    /\ runs' = [runs EXCEPT ![r].work_messages = ListCopy(lists, runs[r].messages),
                            ![r].pc = IF runs[r].rounds < MAX_TOOL_ROUNDS
                                      THEN "loop_model" ELSE "after_loop"]
    /\ UNCHANGED <<run_vars, call, _planner_client, utcnow, invocations>>

\* The tool-enabled call of run r answers (lines 936-957).
ModelResponds(r) ==
    /\ runs[r].pc = "loop_model"
    /\ _planner_client # "None"
    /\ \E response \in ModelResponsesFor(runs[r]) :
          /\ runs' = [runs EXCEPT
                         ![r].heard = Append(@, response),
                         ![r].pending = response.tool_calls,
                         ![r].round_had_success =
                               IF response.tool_calls = <<>> THEN @ ELSE FALSE,
                         ![r].ret = IF response.tool_calls = <<>>
                                    THEN LoopReturned(response.content,
                                                      runs[r].work_messages)
                                    ELSE @,
                         ![r].pc = IF response.tool_calls = <<>> THEN "done"
                                   ELSE "tool_exec"]
          /\ lists' = IF response.tool_calls = <<>> THEN lists
                      ELSE [lists EXCEPT ![runs[r].work_messages] =
                               ListAppend(@, AssistantMsg(response.content,
                                                      response.tool_calls))]
    /\ UNCHANGED <<run_vars, call, _planner_client, utcnow, invocations>>

\* A tool call of run r answers, and its tool message is appended
\* (lines 958-984).
ToolResponds(r) ==
    /\ runs[r].pc = "tool_exec"
    /\ \E http \in RunHttpFor(Head(runs[r].pending)) :
          /\ lists' = [lists EXCEPT ![runs[r].work_messages] =
                          ListAppend(@, ToolMsg(Head(runs[r].pending).id,
                                            ToolResultOf(Head(runs[r].pending),
                                                         RunKey, http)))]
          /\ runs' = [runs EXCEPT
                         ![r].heard = Append(@, http),
                         ![r].pending = Tail(@),
                         ![r].round_had_success =
                             @ \/ ~IsErrorResult(
                                     lists'[runs[r].work_messages][
                                         Len(lists'[runs[r].work_messages])].content.value),
                         ![r].pc = IF Len(runs[r].pending) > 1 THEN "tool_exec"
                                   ELSE "round_end"]
    /\ UNCHANGED <<run_vars, call, _planner_client, utcnow, invocations>>

\* The end of a round of run r (lines 986-999); the early exit leaves the
\* loop for the code after it, which tests place_results as the exit does.
RoundEnds(r) ==
    /\ runs[r].pc = "round_end"
    /\ runs' = [runs EXCEPT
                   ![r].rounds = @ + 1,
                   ![r].consecutive_all_error_rounds =
                       IF runs[r].round_had_success THEN 0 ELSE @ + 1,
                   ![r].pc =
                       IF ~runs[r].round_had_success
                          /\ runs[r].consecutive_all_error_rounds + 1 >= AllErrorRoundsLimit
                       THEN "after_loop"
                       ELSE IF runs[r].rounds + 1 < MAX_TOOL_ROUNDS THEN "loop_model"
                       ELSE "after_loop"]
    /\ UNCHANGED <<run_vars, call, lists, _planner_client, utcnow, invocations>>

\* After the for loop of run r (lines 1001-1016).
LoopEnds(r) ==
    /\ runs[r].pc = "after_loop"
    /\ IF _summarize_tool_results(lists[runs[r].work_messages]).place_results > 0
       THEN /\ runs' = [runs EXCEPT
                           ![r].pc = "done",
                           ![r].ret = LoopReturned(EmptyPlansSentinel,
                                                   runs[r].work_messages)]
            /\ UNCHANGED lists
       ELSE /\ runs' = [runs EXCEPT ![r].pc = "finalize_model"]
            /\ lists' = [lists EXCEPT ![runs[r].work_messages] =
                            ListAppend(@, Msg("user", FinalizeInstruction))]
    /\ UNCHANGED <<run_vars, call, _planner_client, utcnow, invocations>>

\* The finalize call of run r answers (lines 1016-1021).
FinalizeResponds(r) ==
    /\ runs[r].pc = "finalize_model"
    /\ _planner_client # "None"
    /\ \E content \in RunOutputs :
          runs' = [runs EXCEPT
                      ![r].heard = Append(@, [content |-> content, tool_calls |-> <<>>]),
                      ![r].pc = "done",
                      ![r].ret = LoopReturned(content, runs[r].work_messages)]
    /\ UNCHANGED <<run_vars, call, lists, _planner_client, utcnow, invocations>>

NextRuns ==
    \/ \E r \in Runs : StartLoop(r)
    \/ \E r \in Runs : ModelResponds(r)
    \/ \E r \in Runs : ToolResponds(r)
    \/ \E r \in Runs : RoundEnds(r)
    \/ \E r \in Runs : LoopEnds(r)
    \/ \E r \in Runs : FinalizeResponds(r)

SpecRuns == InitRuns /\ [][NextRuns]_vars

(***************************************************************************)
(* A synthesizer invoked twice on the same arguments.  Between the two     *)
(* invocations the clock may advance and the planner client may be closed  *)
(* and initialised again.  The clock counts days: the plans of one         *)
(* invocation read it within the same day.                                 *)
(***************************************************************************)
MaxClock == 3

\* The date counted from a fixed day instead of the clock.
UtcnowPlus_FromEpoch(now, days) == days

\* datetime.utcnow() + timedelta(days=days)
UtcnowPlus(now, days) == now + days

\* The plans as a synthesizer returns them when the clock reads `now`.
Dated(plans, now) ==
    [i \in 1..Len(plans) |->
        [plans[i] EXCEPT !.date_time =
            [t |-> "datetime", day |-> UtcnowPlus(now, plans[i].date_time.days_out)]]]

SynthesizerCalls ==
    {c \in FallbackCalls : Len(c.arg.context.members) <= 1}
    \cup {c \in MapsFallbackCalls : Len(c.arg.tool_messages) <= 1}

InitTwice ==
    /\ NoRun
    /\ NoRuns
    /\ call \in SynthesizerCalls

Synthesize ==
    /\ Len(invocations) < 2
    /\ invocations' = Append(invocations,
          [at |-> utcnow,
           client |-> _planner_client,
           ret |-> Dated(IF call.fn = "_build_fallback_plans"
                         THEN _build_fallback_plans(call.arg.context, call.arg.reason,
                                                    call.arg.refinement_notes)
                         ELSE _build_maps_grounded_fallback_plans(
                                  call.arg.context, call.arg.tool_messages,
                                  call.arg.reason, call.arg.refinement_notes),
                         utcnow)])
    /\ UNCHANGED <<run_vars, call, lists, runs, _planner_client, utcnow>>

ClockAdvances ==
    /\ utcnow < MaxClock
    /\ utcnow' = utcnow + 1
    /\ UNCHANGED <<run_vars, call, lists, runs, _planner_client, invocations>>

close_planner_client ==
    /\ _planner_client # "None"
    /\ _planner_client' = "None"
    /\ UNCHANGED <<run_vars, call, lists, runs, utcnow, invocations>>

init_planner_client ==
    /\ _planner_client = "None"
    /\ _planner_client' = "AsyncOpenAI"
    /\ UNCHANGED <<run_vars, call, lists, runs, utcnow, invocations>>

NextTwice ==
    \/ Synthesize
    \/ ClockAdvances
    \/ close_planner_client
    \/ init_planner_client

SpecTwice == InitTwice /\ [][NextTwice]_vars

(***************************************************************************)
(* Properties.                                                             *)
(***************************************************************************)
Vibes(plans) == {plans[i].vibe_type : i \in 1..Len(plans)}

StartsWith(s, prefix) == Len(s) >= Len(prefix) /\ SubSeq(s, 1, Len(prefix)) = prefix

PlaceResults(h) == _summarize_tool_results(h).place_results

\* The assistant messages of a history, each the head of a tool round.
AssistantIdx(h) == {i \in 1..Len(h) : h[i].role = "assistant"}

\* The tool messages directly behind assistant message i, at most one per call.
RoundTools(h, i) ==
    {k \in (i + 1)..Len(h) :
        /\ k - i <= Len(h[i].tool_calls)
        /\ \A m \in (i + 1)..k : h[m].role = "tool"}

RoundComplete(h, i) == Cardinality(RoundTools(h, i)) = Len(h[i].tool_calls)

ToolMsgIsError(message) == IsErrorResult(JsonLoads(message.content).v)

RoundAllError(h, i) ==
    RoundComplete(h, i) /\ \A k \in RoundTools(h, i) : ToolMsgIsError(h[k])

\* The number of all-error rounds at the end of the history, read backwards
\* from message i.
RECURSIVE TrailingAllErrorRounds(_, _)
TrailingAllErrorRounds(h, i) ==
    IF i = 0 THEN 0
    ELSE IF h[i].role # "assistant" THEN TrailingAllErrorRounds(h, i - 1)
    ELSE IF RoundAllError(h, i) THEN 1 + TrailingAllErrorRounds(h, i - 1)
    ELSE 0

\* The tool call a tool message answers.
CallOf(h, k) ==
    CHOOSE c \in UNION {{h[i].tool_calls[j] : j \in 1..Len(h[i].tool_calls)} :
                           i \in AssistantIdx(h)} : c.id = h[k].tool_call_id

ContextLoaded == ~(result.kind = "raised" /\ result.exc.msg = "Group not found")

NoModelCallRaised == Count(events, "model_raised") = 0

\* C1: whenever generate_group_plans returns instead of raising, the returned
\* list has exactly 5 plans, on every return path (normalised model output of
\* the first attempt or of the structured retry, maps-grounded fallback,
\* template fallback), for any model output, number of venues and rounds.
C1_ExactlyFivePlans ==
    result.kind = "returned" =>
        /\ result.via \in {"model", "retry", "maps", "template"}
        /\ Len(result.plans) = PlanCount

\* The maps-grounded fallback has returned with more than 5 venues collected.
C1_Witness ==
    /\ result.kind = "returned" /\ result.via = "maps"
    /\ Len(_extract_places_from_tool_messages(tool_messages)) > PlanCount

\* A normalised model output that had to be padded has been returned.
C1_WitnessPadded ==
    /\ result.kind = "returned" /\ result.via = "retry"
    /\ repaired = JsonDumps(JDict([plans |-> JList(<<JNum(7),
                                                     JDict([title |-> JStr("Harbor Walk")]),
                                                     RawPlan(JStr("Jazz Club"), JNull)>>)]))

\* C2: whenever generate_group_plans returns, the vibe_type values of the 5
\* plans are pairwise distinct and together exactly {anchor, pivot, reach,
\* chill, wildcard}, on every return path.
C2_DistinctCanonicalVibes ==
    result.kind = "returned" =>
        /\ Len(result.plans) = PlanCount
        /\ Vibes(result.plans) = VibeSet

\* C2 on the maps-grounded fallback alone: with fewer than 5 venues its
\* padding repeats the vibes of the venue plans.
C2_MapsFallbackVibes ==
    (result.kind = "returned" /\ result.via = "maps") => Vibes(result.plans) = VibeSet

\* C3 as stated: if the context loads and no model-client call raises,
\* generate_group_plans never raises and returns 5 plans, whatever the value
\* of planner_fallback_enabled.
C3_NeverRaises ==
    (entry = "generate_group_plans" /\ pc = "done" /\ ContextLoaded /\ NoModelCallRaised)
    => (result.kind = "returned" /\ Len(result.plans) = PlanCount)

\* C3, amended: if the context loads and no model-client call raises, then
\* with planner_fallback_enabled true generate_group_plans never raises and
\* returns 5 real or 5 fallback plans; with it false the only failure is a
\* PlannerError "Planner failed: ...".
C3_NeverRaisesWithFallbackEnabled ==
    (entry = "generate_group_plans" /\ pc = "done" /\ ContextLoaded /\ NoModelCallRaised)
    => IF settings.planner_fallback_enabled
       THEN result.kind = "returned" /\ Len(result.plans) = PlanCount
       ELSE result.kind = "raised" =>
               /\ result.exc.cls = "PlannerError"
               /\ StartsWith(result.exc.msg, "Planner failed: ")

\* With the fallback enabled, a structured retry that also failed to parse
\* has ended in the 5 template plans, no model call having raised.
C3_Witness ==
    /\ entry = "generate_group_plans" /\ pc = "done" /\ NoModelCallRaised
    /\ settings.planner_fallback_enabled
    /\ Count(events, "model:retry") = 1
    /\ result.kind = "returned" /\ result.via = "template"

\* C4: if a model-client call raises during the tool loop, _run_tool_loop
\* returns neither an output nor a message history, no further model call
\* (finalize or structured retry) and no maps-grounded synthesis follows, and
\* generate_group_plans ends in PlannerError "Planner failed: ..." when
\* planner_fallback_enabled is false, or in the 5 template fallback plans when
\* it is true.
C4_LoopRaiseIsFatal ==
    loop_ret.status = "raised" =>
        /\ loop_ret.output = EmptyText /\ loop_ret.messages = <<>>
        /\ output = EmptyText /\ tool_messages = <<>>
        /\ pc \in {"fatal", "done"}
        /\ \A i \in 1..Len(events) :
              events[i] = "model_raised" =>
                  \A j \in (i + 1)..Len(events) : events[j] = "template_fallback"
        /\ (entry = "_run_tool_loop") => (pc = "done" /\ result = NoResult)
        /\ (entry = "generate_group_plans" /\ pc = "done") =>
              IF settings.planner_fallback_enabled
              THEN /\ result.kind = "returned" /\ result.via = "template"
                   /\ Len(result.plans) = PlanCount
                   /\ \A i \in 1..Len(result.plans) :
                         Get(result.plans[i].logistics, "source") = JStr("fallback")
              ELSE /\ result.kind = "raised"
                   /\ result.exc.cls = "PlannerError"
                   /\ StartsWith(result.exc.msg, "Planner failed: " \o exc.cls)

\* A tool-enabled call raised after a round that had collected venues, and
\* the run has ended in the template plans.
C4_Witness ==
    /\ entry = "generate_group_plans" /\ pc = "done"
    /\ loop_ret.status = "raised"
    /\ rounds >= 1 /\ PlaceResults(work_messages) > 0
    /\ settings.planner_fallback_enabled
    /\ result.kind = "returned"

\* C5: in _run_tool_loop every response with n tool calls appends exactly one
\* assistant message recording the calls, directly followed by exactly n tool
\* messages, one per call, in call order, each keyed by its call's id; also
\* for malformed or non-object argument text, unknown tools and raising tools.
C5_ToolMessagesPairCalls ==
    LET h == work_messages
        InProgress(i) == pc = "tool_exec" /\ \A a \in AssistantIdx(h) : a <= i
    IN  /\ \A i \in AssistantIdx(h) :
              LET calls == h[i].tool_calls
                  n == Len(calls)
                  have == IF InProgress(i) THEN n - Len(pending) ELSE n
              IN  /\ n > 0
                  /\ Len(h) >= i + have
                  /\ InProgress(i) =>
                        (Len(h) = i + have /\ pending = SubSeq(calls, have + 1, n))
                  /\ \A j \in 1..have :
                        /\ h[i + j].role = "tool"
                        /\ h[i + j].tool_call_id = calls[j].id
                  /\ Len(h) > i + n => h[i + n + 1].role # "tool"
        /\ \A k \in 1..Len(h) :
              h[k].role = "tool" => \E i \in AssistantIdx(h) : k \in RoundTools(h, i)
        /\ Cardinality(AssistantIdx(h)) =
              rounds + (IF pc \in {"tool_exec", "round_end"} THEN 1 ELSE 0)

\* A round of two calls is complete: a search_places call with malformed
\* argument text, which raises on the empty arguments, then a call of an
\* unknown tool with a JSON list as arguments.
C5_Witness ==
    \E i \in AssistantIdx(work_messages) :
        LET calls == work_messages[i].tool_calls IN
        /\ Len(calls) = 2 /\ RoundComplete(work_messages, i)
        /\ calls[1].name = "search_places" /\ calls[1].arguments.form = "broken"
        /\ calls[2].name = "book_table"
        /\ pc \notin {"tool_exec", "round_end"}

\* C6: _execute_tool never raises: no tool message records the guardrail's
\* "Tool execution failed" object, and a name other than search_places and
\* get_directions gives {error: "Unknown tool: <name>"}.
C6_ExecuteToolNeverRaises ==
    \A k \in 1..Len(work_messages) :
        work_messages[k].role = "tool" =>
            LET payload == JsonLoads(work_messages[k].content).v
                error == Get(payload, "error")
                name == CallOf(work_messages, k).name
            IN  /\ ~(IsStr(error) /\ StartsWith(error.s, "Tool execution failed: "))
                /\ name \notin {"search_places", "get_directions"} =>
                      payload = JDict([error |-> JStr("Unknown tool: " \o name)])

\* The part of C6 the code keeps: an unknown tool name gives the error object.
C6_UnknownToolIsReported ==
    \A k \in 1..Len(work_messages) :
        (work_messages[k].role = "tool"
         /\ CallOf(work_messages, k).name \notin {"search_places", "get_directions"})
        => JsonLoads(work_messages[k].content).v =
              JDict([error |-> JStr("Unknown tool: " \o CallOf(work_messages, k).name)])

\* The plan records of a text that is valid JSON with 5 plan objects.
FivePlanObjects(text) ==
    IF /\ text.form = "json" /\ IsDict(text.value)
       /\ IsList(Get(text.value, "plans"))
       /\ Len(Get(text.value, "plans").l) = PlanCount
       /\ \A i \in 1..PlanCount : IsDict(Get(text.value, "plans").l[i])
    THEN Get(text.value, "plans").l
    ELSE <<>>

\* The first response of the tool loop carried no tool calls, and its content
\* was valid JSON with 5 plan objects.
FirstResponseIsFivePlans ==
    /\ entry = "generate_group_plans" /\ use_tool_grounding
    /\ max_rounds > 0 /\ rounds = 0
    /\ loop_ret.status = "returned"
    /\ FivePlanObjects(loop_ret.output) # <<>>

C8_StopsAfterTwoAllErrorRounds ==
    LET h == work_messages IN
    /\ \A a, b \in AssistantIdx(h) :
          (/\ a < b /\ \A m \in AssistantIdx(h) : ~(a < m /\ m < b)
           /\ RoundAllError(h, a) /\ RoundAllError(h, b))
          => /\ \A m \in AssistantIdx(h) : m <= b
             /\ pc # "loop_model"
             /\ Count(events, "model:tools") = Cardinality(AssistantIdx(h))
    /\ pc \notin {"tool_exec", "round_end"} =>
          consecutive_all_error_rounds = TrailingAllErrorRounds(h, Len(h))

\* With max_rounds 3, a round with a zero-places search was followed by two
\* all-error rounds, and the loop is past its last tool-enabled call.
C8_Witness ==
    /\ max_rounds = MaxRounds /\ rounds = MaxRounds
    /\ consecutive_all_error_rounds = AllErrorRoundsLimit
    /\ pc \notin {"tool_exec", "round_end", "loop_model"}
    /\ \E k \in 1..Len(work_messages) :
          /\ work_messages[k].role = "tool"
          /\ work_messages[k].content = JsonDumps(JDict([places |-> JList(<<>>)]))

\* Two all-error rounds have ended the loop with a round to spare.
C8_WitnessEarlyExit ==
    /\ max_rounds = MaxRounds /\ rounds = AllErrorRoundsLimit
    /\ consecutive_all_error_rounds = AllErrorRoundsLimit
    /\ pc = "done"

\* The loop has used all max_rounds rounds without the early exit, and is over.
Exhausted ==
    /\ loop_ret.status # "none"
    /\ rounds = max_rounds
    /\ consecutive_all_error_rounds < AllErrorRoundsLimit

\* C9 as stated: after all max_rounds rounds without the early exit exactly
\* one finalize call is made, also when place results exist.
C9_FinalizeAfterExhaustion ==
    Exhausted => Count(events, "model:finalize") = 1

\* C9, amended: after all max_rounds rounds without the early exit, exactly
\* one finalize call (after the "Finalize now" user message, and no further
\* tool-enabled call) is made when no place results were collected; when
\* place results exist no finalize call is made and the loop returns the
\* empty-plans sentinel with the history.
C9_FinalizeOnlyWithoutPlaceResults ==
    Exhausted =>
        IF PlaceResults(work_messages) > 0
        THEN /\ Count(events, "model:finalize") = 0
             /\ loop_ret = LoopReturned(EmptyPlansSentinel, work_messages)
        ELSE /\ Count(events, "model:finalize") = 1
             /\ Count(events, "model:tools") = max_rounds
             /\ work_messages[Len(work_messages)] = Msg("user", FinalizeInstruction)

\* Rounds were used up with tools run and no place collected, and the
\* finalize call has answered.
C9_Witness ==
    /\ Exhausted /\ max_rounds >= 1
    /\ loop_ret.status = "returned"
    /\ Count(events, "tool") > 0
    /\ PlaceResults(work_messages) = 0
    /\ Count(events, "model:finalize") = 1

\* C10: when the loop stops by early exit or round exhaustion with place
\* results collected, no finalize call is made and generate_group_plans
\* returns maps-grounded plans without a further model call, whatever the
\* collected entries hold.
C10_PlaceResultsEndInMapsFallback ==
    (/\ entry = "generate_group_plans"
     /\ loop_ret.status # "none"
     /\ (rounds = max_rounds \/ consecutive_all_error_rounds >= AllErrorRoundsLimit)
     /\ PlaceResults(work_messages) > 0)
    => /\ Count(events, "model:finalize") = 0
       /\ Count(events, "model:retry") = 0
       /\ pc = "done" => (result.kind = "returned" /\ result.via = "maps")

\* The part of C10 the code keeps: with place results no finalize call is made.
C10_NoFinalizeWithPlaceResults ==
    (/\ loop_ret.status # "none"
     /\ (rounds = max_rounds \/ consecutive_all_error_rounds >= AllErrorRoundsLimit)
     /\ PlaceResults(work_messages) > 0)
    => Count(events, "model:finalize") = 0

FallbackEvents == {"maps_fallback", "maps_fallback_none", "template_fallback"}

TransientFailures == {"APIConnectionError", "ConnectError", "ConnectTimeout", "PoolTimeout"}

ModelRaisedIn(log) == Count(log, "model_raised")

\* C12: one logical call through _call_vllm_chat makes at most 3 attempts; an
\* attempt is repeated only after a transient connectivity failure; attempts
\* stop at the first success; a non-transient failure propagates from the
\* attempt it occurs in, with no retry.
C12_AtMostThreeAttempts ==
    [][/\ attempt \in 0..3 /\ attempt' \in 0..3
       /\ (pc \in ModelPcs) <=> (attempt >= 1)
       \* a repeated attempt
       /\ (attempt >= 1 /\ attempt' > attempt) =>
             /\ attempt' = attempt + 1
             /\ last_error' \in TransientFailures
             /\ pc' = pc /\ events' = events /\ exc' = exc /\ result' = result
             /\ work_messages' = work_messages
       \* the call raises
       /\ (pc \in ModelPcs /\ ModelRaisedIn(events') > ModelRaisedIn(events)) =>
             /\ pc' \notin ModelPcs /\ attempt' = 0
             /\ IF exc'.cls = "RetryError"
                THEN attempt = 3
                ELSE exc'.cls \notin TransientFailures
       \* the call succeeds
       /\ (pc \in ModelPcs /\ attempt' <= attempt
           /\ ModelRaisedIn(events') = ModelRaisedIn(events)) =>
             /\ attempt' = (IF pc' \in ModelPcs THEN 1 ELSE 0)
             /\ last_error' = ""
             /\ exc'.cls \notin (TransientFailures \cup {"RetryError", "BadRequestError"})
      ]_vars

\* The structured retry is at its third attempt after a connect timeout.
C12_Witness ==
    /\ pc = "retry_model"
    /\ attempt = stop_after_attempt
    /\ last_error = "ConnectTimeout"

\* The number of distinct venues the tool messages of the run hold.
VenueCount == Len(_extract_places_from_tool_messages(tool_messages))

SourceOf(plan) == Get(plan.logistics, "source")

\* C13: with k < 5 distinct venues the maps-grounded fallback returns the k
\* venues as plans 1..k tagged DEFAULT_VIBES[0..k-1], and template plans at
\* k+1..5 tagged with the remaining canonical vibes in order (for k = 3:
\* anchor, pivot, reach, then chill, wildcard).
C13_PaddedVibesContinue ==
    (result.kind = "returned" /\ result.via = "maps" /\ VenueCount < PlanCount) =>
        /\ Len(result.plans) = PlanCount
        /\ \A i \in 1..PlanCount :
              /\ result.plans[i].vibe_type = DEFAULT_VIBES[i]
              /\ SourceOf(result.plans[i]) =
                    (IF i <= VenueCount THEN JStr("maps_fallback") ELSE JStr("fallback"))

\* What the code does for k < 5: the padding is the first 5 - k template
\* plans as they are, tagged from anchor on again.
C13_PaddingRestartsVibes ==
    (result.kind = "returned" /\ result.via = "maps" /\ VenueCount < PlanCount) =>
        /\ Len(result.plans) = PlanCount
        /\ \A i \in 1..PlanCount :
              IF i <= VenueCount
              THEN /\ result.plans[i].vibe_type = DEFAULT_VIBES[i]
                   /\ SourceOf(result.plans[i]) = JStr("maps_fallback")
              ELSE /\ result.plans[i].vibe_type = DEFAULT_VIBES[i - VenueCount]
                   /\ SourceOf(result.plans[i]) = JStr("fallback")

\* Maps-grounded plans have been returned for exactly 3 distinct venues.
C13_Witness ==
    result.kind = "returned" /\ result.via = "maps" /\ VenueCount = 3

\* A text no parse stage can read.
Unparseable(text) == ~_parse_json_like(_strip_code_fence(text)).ok

\* The log without the tool executions.
RECURSIVE CallsAndFallbacks(_)
CallsAndFallbacks(log) ==
    IF log = <<>> THEN <<>>
    ELSE (IF Head(log) = "tool" THEN <<>> ELSE <<Head(log)>>) \o CallsAndFallbacks(Tail(log))

\* A run with tool grounding has ended: 2 tool rounds all of whose calls gave
\* errors, no venue data, no model call raised, and every model text after the
\* rounds was unparseable.
TwoErrorRoundsThenUnparseable ==
    /\ entry = "generate_group_plans" /\ pc = "done" /\ use_tool_grounding
    /\ rounds = 2 /\ consecutive_all_error_rounds = 2
    /\ PlaceResults(work_messages) = 0
    /\ NoModelCallRaised
    /\ Unparseable(output) /\ Unparseable(repaired)

\* C14 as stated: in that run the loop stops issuing tool rounds, one
\* structured retry is made and fails, the maps-grounded fallback yields
\* nothing, and 5 template plans with logistics.source "fallback" are returned.
C14_EndsInTemplatePlans ==
    TwoErrorRoundsThenUnparseable =>
        /\ CallsAndFallbacks(events) =
              <<"model:tools", "model:tools", "model:finalize", "model:retry",
                "maps_fallback_none", "template_fallback">>
        /\ result.kind = "returned" /\ result.via = "template"
        /\ Len(result.plans) = PlanCount
        /\ \A i \in 1..Len(result.plans) : SourceOf(result.plans[i]) = JStr("fallback")

\* C14, amended: in that run the loop stops issuing tool rounds and makes the
\* finalize call, one structured retry is made and fails, the maps-grounded
\* fallback yields nothing, and then: with planner_fallback_enabled true 5
\* template plans with logistics.source "fallback" are returned, with it false
\* PlannerError "Planner failed: PlannerError: ..." is raised.
C14_EndsInTemplatePlansIfEnabled ==
    TwoErrorRoundsThenUnparseable =>
        /\ IF settings.planner_fallback_enabled
           THEN /\ CallsAndFallbacks(events) =
                      <<"model:tools", "model:tools", "model:finalize", "model:retry",
                        "maps_fallback_none", "template_fallback">>
                /\ result.kind = "returned" /\ result.via = "template"
                /\ Len(result.plans) = PlanCount
                /\ \A i \in 1..Len(result.plans) :
                      SourceOf(result.plans[i]) = JStr("fallback")
           ELSE /\ CallsAndFallbacks(events) =
                      <<"model:tools", "model:tools", "model:finalize", "model:retry",
                        "maps_fallback_none">>
                /\ result.kind = "raised"
                /\ result.exc.cls = "PlannerError"
                /\ StartsWith(result.exc.msg, "Planner failed: PlannerError: LLM output")

\* That run has ended in template plans.
C14_Witness ==
    /\ TwoErrorRoundsThenUnparseable
    /\ settings.planner_fallback_enabled
    /\ result.kind = "returned"

\* C15: with an empty or whitespace-only maps credential a generation run uses
\* the best-effort system prompt, makes no tool-enabled or finalize call,
\* executes no tool, never invokes the maps-grounded fallback, makes exactly
\* one plain completion call once the group is loaded and at most one
\* structured-retry call, and returns the model's plans when the plain answer
\* carries them.
C15_BlankKeySkipsGrounding ==
    (entry = "generate_group_plans" /\ StripStr(settings.google_maps_api_key) = "") =>
        /\ system_prompt = SYSTEM_PROMPT_BEST_EFFORT
        /\ \A e \in {"model:tools", "model:finalize", "tool",
                     "maps_fallback", "maps_fallback_none"} : Count(events, e) = 0
        /\ messages = <<>> /\ work_messages = <<>> /\ tool_messages = <<>>
        /\ Count(events, "model:plain") = (IF pc # "idle" /\ ContextLoaded THEN 1 ELSE 0)
        /\ Count(events, "model:retry") <= 1
        /\ (pc = "done" /\ ContextLoaded /\ NoModelCallRaised
              /\ _extract_plans(output).ok)
             => (result.kind = "returned" /\ result.via = "model"
                   /\ Count(events, "model:retry") = 0)

\* A run with a whitespace-only credential has made its plain call and its
\* structured retry, and has returned the retry's plans.
C15_Witness ==
    /\ entry = "generate_group_plans" /\ settings.google_maps_api_key = "  "
    /\ pc = "done"
    /\ events = <<"model:plain", "model:retry">>
    /\ result.kind = "returned" /\ result.via = "retry"

\* A call of _parse_json_like has returned or raised.
Parsed == call.fn = "_parse_json_like" /\ call.returned

\* C16 as stated: every variant of a JSON object text J (prose around it, a
\* trailing comma before the closing brace, single quotes with True / None)
\* parses to the structure J parses to.
C16_VariantsParseAlike ==
    Parsed => /\ ParseStages(call.about.object).ok
              /\ call.ret = ParseStages(call.about.object)

\* What holds: the variants parse alike when the prose before J holds no
\* balanced bracket pair, J is read with double quotes or holds no closing
\* bracket inside a string, and no string of J that is read after a failed
\* strict parse holds a comma followed by a closing bracket.
C16_VariantsParseAlikeWithoutBrackets ==
    LET object == call.about.object.value
        BracketInString ==
            \E i \in 2..Len(object) - 1 : object[i] \in {"}", "]"}
        CommaBracketInString ==
            \E i \in 2..Len(object) - 2 :
                object[i] = "," /\ object[SkipBlank(object, i + 1)] \in {"}", "]"}
                   /\ SkipBlank(object, i + 1) < Len(object)
                   /\ object[SkipBlank(object, i + 1) + 1] = "\""
    IN  (/\ Parsed
         /\ _extract_json_candidate(call.about.before) = <<>>
         /\ call.about.variant = "python" => ~BracketInString
         /\ call.about.variant # "clean" => ~CommaBracketInString)
        => call.ret = ParseStages(call.about.object)

\* Prose without any bracket around an object whose string value holds ",}"
\* has been parsed, and the result is not the object's structure.
C16_Witness ==
    /\ Parsed
    /\ call.about.variant = "prose"
    /\ call.about.before = <<"Sure", " ">> /\ call.about.after = <<>>
    /\ call.ret.ok
    /\ call.ret # ParseStages(call.about.object)

\* A call of _extract_plans has returned or raised.
Extracted == call.fn = "_extract_plans" /\ call.returned

\* Some parse stage succeeded on the text, and what it gave holds no
\* non-empty list under "plans" or at top level.
ParsedWithoutPlanList(text) ==
    LET parsed == _parse_json_like(_strip_code_fence(text)) IN
    /\ parsed.ok
    /\ ~(IsDict(parsed.v) /\ IsList(Get(parsed.v, "plans"))
            /\ Len(Get(parsed.v, "plans").l) > 0)
    /\ ~(IsList(parsed.v) /\ Len(parsed.v.l) > 0)

\* C17 as stated: for every raw text _extract_plans returns 5 plans or raises
\* PlannerError and nothing else, and the message is the "no plans" one
\* exactly when a parse stage succeeded without giving a non-empty list of
\* plans (a "plans" value that is an object, a number or a string included).
C17_OnlyPlannerErrorClassified ==
    Extracted =>
        IF call.ret.ok THEN Len(call.ret.v) = PlanCount
        ELSE /\ call.ret.exc.cls = "PlannerError"
             /\ ContainsNoPlans(call.ret.exc.msg) <=> ParsedWithoutPlanList(call.arg)

\* What holds when the "plans" value is a list, null or absent: 5 plans or a
\* PlannerError, "no plans" exactly for a parsed text without a plan list.
C17_OnlyPlannerErrorForLists ==
    LET parsed == _parse_json_like(_strip_code_fence(call.arg)) IN
    (/\ Extracted
     /\ (parsed.ok /\ IsDict(parsed.v)) =>
            (IsList(Get(parsed.v, "plans")) \/ Get(parsed.v, "plans") = JNull))
    => IF call.ret.ok THEN Len(call.ret.v) = PlanCount
       ELSE /\ call.ret.exc.cls = "PlannerError"
            /\ ContainsNoPlans(call.ret.exc.msg) <=> ParsedWithoutPlanList(call.arg)

\* _extract_plans was called on a fenced text whose "plans" value is a
\* number, and has raised what is no PlannerError.
C17_Witness ==
    /\ Extracted
    /\ call.arg = Text("fenced", JDict([plans |-> JNum(7)]))
    /\ ~call.ret.ok /\ call.ret.exc.cls = "TypeError"

\* A call of _cost_from_price_level has returned.
Costed == call.fn = "_cost_from_price_level" /\ call.returned

\* The five buckets, by level 0..4.
Buckets ==
    <<"$0-10 per person", "$10-20 per person", "$20-40 per person",
      "$40-80 per person", "$80+ per person">>

BucketOf(level) == Buckets[(IF level <= 0 THEN 0 ELSE IF level >= 4 THEN 4 ELSE level) + 1]

EnumNames == {PriceLevelNames[k] : k \in 1..Len(PriceLevelNames)}

\* What the claim states of integers, enum names and null.
CostOfLevelsAndNames ==
    /\ call.ret.t = "str" /\ call.ret.s \in {Buckets[k] : k \in 1..Len(Buckets)}
    /\ call.arg.t = "num" => call.ret.s = BucketOf(call.arg.n)
    /\ \A k \in 1..Len(PriceLevelNames) :
          call.arg = JStr(PriceLevelNames[k])
             => call.ret.s = _cost_from_price_level(JNum(k - 1))
    /\ call.arg \in {JNum(2), JStr("PRICE_LEVEL_MODERATE")}
          => call.ret.s = "$20-40 per person"
    /\ call.arg = JNull => call.ret.s = BucketOf(2)

\* C18 as stated: the function is total, integer k and the k-th enum name
\* give the same bucket, integers <= 0 give the first and integers >= 4 the
\* last bucket, and null or any string that is no enum name gives the level-2
\* bucket.
C18_CostIsRepresentationIndependent ==
    Costed =>
        /\ CostOfLevelsAndNames
        /\ (call.arg.t = "str" /\ call.arg.s \notin EnumNames)
              => call.ret.s = BucketOf(2)

\* C18, amended: as stated for integers, enum names and null; a string that
\* is an integer numeral gives the bucket of that integer, and a string that
\* is neither an enum name (in any case, whitespace around it ignored) nor a
\* numeral gives the level-2 bucket.
C18_CostIsRepresentationIndependentNumerals ==
    Costed =>
        /\ CostOfLevelsAndNames
        /\ (call.arg.t = "str" /\ UpperStr(StripStr(call.arg.s)) \notin EnumNames)
              => call.ret.s = (IF IntOfStr(call.arg.s).ok
                               THEN BucketOf(IntOfStr(call.arg.s).v)
                               ELSE BucketOf(2))

\* The function was called on the last enum name and returned the last bucket.
C18_Witness ==
    /\ Costed
    /\ call.arg = JStr("PRICE_LEVEL_VERY_EXPENSIVE")
    /\ call.ret.s = "$80+ per person"

\* A call of _format_duration has returned.
Formatted == call.fn = "_format_duration" /\ call.returned

\* A count of minutes as the claim has it shown: hours from 60 minutes on,
\* no minutes clause for a remainder of zero.
Shown(minutes) ==
    IF minutes < 60 THEN JStr(ToString(minutes) \o " min")
    ELSE IF minutes % 60 = 0 THEN JStr(ToString(minutes \div 60) \o " hr")
    ELSE JStr(ToString(minutes \div 60) \o " hr " \o ToString(minutes % 60) \o " min")

\* C19 as stated: null for s <= 0 and for a missing value; for s > 0 the
\* partial minute is rounded up (90 gives "2 min", 3661 gives "1 hr 1 min"),
\* the result never shows 0 minutes, shows hours from 60 minutes on and omits
\* the minutes clause for a remainder of zero.
C19_PartialMinutesRoundUp ==
    Formatted =>
        IF call.arg = JNull \/ call.arg.n <= 0 THEN call.ret = JNull
        ELSE call.ret = Shown((call.arg.n + 59) \div 60)

\* What the code does: the seconds are rounded to the nearest minute, a tie
\* to the even minute, and to 1 minute at least.
C19_RoundsToNearestMinute ==
    Formatted =>
        IF call.arg = JNull \/ call.arg.n <= 0 THEN call.ret = JNull
        ELSE \E minutes \in 1..(call.arg.n \div 60 + 1) :
                /\ call.ret = Shown(minutes)
                /\ \/ minutes = 1 /\ call.arg.n <= 90
                   \/ 2 * (60 * minutes - call.arg.n) < 60
                         /\ 2 * (call.arg.n - 60 * minutes) < 60
                   \/ minutes % 2 = 0
                         /\ 60 * minutes - call.arg.n \in {30, -30}

\* 61 seconds were formatted as "1 min".
C19_Witness ==
    /\ Formatted
    /\ call.arg = JNum(61)
    /\ call.ret = JStr("1 min")

(***************************************************************************)
(* A run on its own, as a function of the answers it is given: the code    *)
(* from one await to the next in one piece.                                *)
(***************************************************************************)
\* A stretch of code between two awaits: the run after it, and the messages
\* it appended to work_messages.
Stretch(run, appended) == [run |-> run, appended |-> appended]

\* return <text>, work_messages
RunReturns(run, text) ==
    [run EXCEPT !.pc = "done", !.ret = LoopReturned(text, run.work_messages)]

\* After the for loop (lines 1001-1016), h being work_messages.
AfterLoopOf(run, h) ==
    IF _summarize_tool_results(h).place_results > 0
    THEN Stretch(RunReturns(run, EmptyPlansSentinel), <<>>)
    ELSE Stretch([run EXCEPT !.pc = "finalize_model"], <<Msg("user", FinalizeInstruction)>>)

\* for _ in range(max_rounds) (line 935)
LoopHeadOf(run, h) ==
    IF run.rounds < MAX_TOOL_ROUNDS THEN Stretch([run EXCEPT !.pc = "loop_model"], <<>>)
    ELSE AfterLoopOf(run, h)

\* The tool-enabled call answers (lines 943-957).
OnModel(run, h, response) ==
    IF response.tool_calls = <<>> THEN Stretch(RunReturns(run, response.content), <<>>)
    ELSE Stretch([run EXCEPT !.pc = "tool_exec", !.pending = response.tool_calls,
                             !.round_had_success = FALSE],
                 <<AssistantMsg(response.content, response.tool_calls)>>)

\* A tool call answers (lines 958-999).
OnTool(run, h, http) ==
    LET recorded == ToolResultOf(Head(run.pending), RunKey, http)
        message == ToolMsg(Head(run.pending).id, recorded)
        success == run.round_had_success \/ ~IsErrorResult(recorded)
        errors == IF success THEN 0 ELSE run.consecutive_all_error_rounds + 1
        ended == [run EXCEPT !.pending = <<>>, !.round_had_success = success,
                             !.rounds = @ + 1, !.consecutive_all_error_rounds = errors]
        rest == IF errors >= AllErrorRoundsLimit THEN AfterLoopOf(ended, Append(h, message))
                ELSE LoopHeadOf(ended, Append(h, message))
    IN  IF Len(run.pending) > 1
        THEN Stretch([run EXCEPT !.pending = Tail(@), !.round_had_success = success],
                     <<message>>)
        ELSE Stretch(rest.run, <<message>> \o rest.appended)

\* The finalize call answers (lines 1016-1021).
OnFinalize(run, h, response) == Stretch(RunReturns(run, response.content), <<>>)

Continue(run, h, response) ==
    CASE run.pc = "loop_model" -> OnModel(run, h, response)
      [] run.pc = "tool_exec" -> OnTool(run, h, response)
      [] run.pc = "finalize_model" -> OnFinalize(run, h, response)

\* Run r on its own: _run_tool_loop started on the messages it was passed
\* and given, one after the other, the answers in `heard`.
RECURSIVE Replay(_, _, _, _)
Replay(run, h, heard, i) ==
    IF i > Len(heard) THEN [run |-> run, h |-> h]
    ELSE LET stretch == Continue(run, h, heard[i])
         IN  Replay(stretch.run, h \o stretch.appended, heard, i + 1)

Alone(run) ==
    LET started == LoopHeadOf([IdleRun(run.messages) EXCEPT
                                  !.work_messages = run.work_messages],
                              InitialMessages_Grounded)
    IN  Replay(started.run, InitialMessages_Grounded \o started.appended, run.heard, 1)

Started(r) == runs[r].pc # "idle"

AtAwait(r) == runs[r].pc \in {"loop_model", "tool_exec", "finalize_model", "done"}

IsPrefix(s, t) == Len(s) <= Len(t) /\ SubSeq(t, 1, Len(s)) = s

\* C20: two runs interleaved at every model call and tool call share no
\* mutable state: at each await and at its return a run's locals, result and
\* message history are those the run has on its own given the same answers
\* (between awaits the history is on its way there), its history is a list of
\* its own, the list a run was passed is never written, and no run writes the
\* shared client.
C20_RunsShareNoState ==
    /\ \A r \in Runs :
          /\ lists[runs[r].messages] = InitialMessages_Grounded
          /\ Started(r) =>
                /\ IsPrefix(lists[runs[r].work_messages], Alone(runs[r]).h)
                /\ \A other \in Runs : runs[r].work_messages # runs[other].messages
          /\ AtAwait(r) =>
                /\ [Alone(runs[r]).run EXCEPT !.heard = runs[r].heard] = runs[r]
                /\ Alone(runs[r]).h = lists[runs[r].work_messages]
    /\ (Started(1) /\ Started(2)) => runs[1].work_messages # runs[2].work_messages
    /\ _planner_client = "AsyncOpenAI"

\* Both runs were passed the same list, were interleaved between their tool
\* calls, and have returned with different histories.
C20_Witness ==
    /\ runs[1].messages = runs[2].messages
    /\ runs[1].pc = "done" /\ runs[2].pc = "done"
    /\ Len(runs[1].heard) >= 3 /\ Len(runs[2].heard) >= 3
    /\ runs[1].heard # runs[2].heard
    /\ Len(lists[runs[1].work_messages]) > Len(InitialMessages_Grounded)
    /\ Len(lists[runs[2].work_messages]) > Len(InitialMessages_Grounded)

(***************************************************************************)
(* The bracket span, said by counting.  A scan that starts at index s is   *)
(* outside every string there; QuoteState is its state before character i. *)
(***************************************************************************)
RECURSIVE QuoteState(_, _, _)
QuoteState(text, s, i) ==
    IF i <= s THEN "outside"
    ELSE LET before == QuoteState(text, s, i - 1)
             ch == text[i - 1]
         IN  CASE before = "outside" -> IF ch = "\"" THEN "inside" ELSE "outside"
               [] before = "escaped" -> "inside"
               [] OTHER -> IF ch = "\\" THEN "escaped"
                           ELSE IF ch = "\"" THEN "outside" ELSE "inside"

CloserOf(opener) == IF opener = "{" THEN "}" ELSE "]"

\* Openers less closers of the type of text[s] outside strings in s..i.
DepthAt(text, s, i) ==
    Cardinality({j \in s..i : text[j] = text[s] /\ QuoteState(text, s, j) = "outside"})
    - Cardinality({j \in s..i : text[j] = CloserOf(text[s])
                                  /\ QuoteState(text, s, j) = "outside"})

\* The positions where the depth counted from s is back at zero.
ZeroDepthAt(text, s) == {i \in s..Len(text) : DepthAt(text, s, i) = 0}

HasSpan(text, s) == ZeroDepthAt(text, s) # {}

SpanFrom(text, s) ==
    SubSeq(text, s, CHOOSE i \in ZeroDepthAt(text, s) :
                        \A j \in ZeroDepthAt(text, s) : i <= j)

OpenersOf(text) == {i \in 1..Len(text) : text[i] \in {"{", "["}}

First(indices) == CHOOSE i \in indices : \A j \in indices : i <= j

CandidateReturned == call.fn = "_extract_json_candidate" /\ call.returned

\* C21 (as stated): the candidate is the span from the first '{' or '[' of
\* the text to the first position where the depth of that bracket type,
\* counted outside double-quoted strings, is back at zero, and it is absent
\* only when no bracket of the text opens a balanced span.
C21_SpanFromFirstBracket ==
    CandidateReturned =>
        LET text == call.arg.value IN
        IF \E s \in OpenersOf(text) : HasSpan(text, s)
        THEN /\ HasSpan(text, First(OpenersOf(text)))
             /\ call.ret = Chars(SpanFrom(text, First(OpenersOf(text))))
        ELSE call.ret = JNull

\* C21 (amended): the candidate is the span from the first '{' or '[' that
\* opens a balanced span; a bracket whose depth never returns to zero is
\* passed over.
C21_SpanFromFirstBalancedBracket ==
    CandidateReturned =>
        LET text == call.arg.value
            balanced == {s \in OpenersOf(text) : HasSpan(text, s)}
        IN  IF balanced # {}
            THEN call.ret = Chars(SpanFrom(text, First(balanced)))
            ELSE call.ret = JNull

\* An unbalanced '[' comes first and the object holds a '}' in a string.
C21_Witness ==
    /\ CandidateReturned
    /\ call.about # JNull
    /\ call.about.before = <<"a", " ", "[", " ">>
    /\ call.about.object = Chars(<<"{">> \o Quoted(<<"k">>) \o <<":", " ">>
                                 \o Quoted(<<"a", "}", "b">>) \o <<"}">>)
    /\ call.ret = call.about.object

(***************************************************************************)
(* The stages of the recovery pipeline, each on what it is given.          *)
(***************************************************************************)
StagesOf(text) ==
    LET candidate == StripChars(text)
        span == _extract_json_candidate(candidate)
    IN  <<WholeValue(candidate, "json")>>
        \o (IF span = <<>> THEN <<>>
            ELSE <<WholeValue(_sanitize_json_like(span), "json"),
                   LiteralEval(_sanitize_json_like(span))>>)
        \o <<LiteralEval(candidate)>>

ParseReturned == call.fn = "_parse_json_like" /\ call.returned

\* C22: the stages are tried in order, each after the previous one failed:
\* the call returns the value of the first stage that parses, and a parse
\* failure is reported only when every stage failed, the permissive literal
\* parse of the full text included.
C22_EveryStageTriedBeforeFailure ==
    (ParseReturned /\ StripChars(call.arg.value) # <<>>) =>
        LET stages == StagesOf(call.arg.value)
            parsing == {i \in 1..Len(stages) : stages[i].ok}
        IN  IF parsing = {}
            THEN ~call.ret.ok /\ call.ret.exc.cls = "PlannerError"
            ELSE call.ret = stages[First(parsing)]

\* What the code does: the full text is given to the permissive parse only
\* when no bracket span was extracted.
C22_FullTextOnlyWithoutSpan ==
    (ParseReturned /\ StripChars(call.arg.value) # <<>>) =>
        LET candidate == StripChars(call.arg.value)
            stages == StagesOf(call.arg.value)
            tried == IF _extract_json_candidate(candidate) = <<>> THEN {1, 2}
                     ELSE {1, 2, 3}
            parsing == {i \in tried : stages[i].ok}
        IN  IF parsing = {}
            THEN ~call.ret.ok /\ call.ret.exc.cls = "PlannerError"
            ELSE call.ret = stages[First(parsing)]

\* A parse failure is reported for a text that the permissive parse reads
\* in full: the span taken from it ends at a '}' inside a single-quoted string.
C22_Witness ==
    /\ ParseReturned
    /\ call.about.variant = "python"
    /\ _extract_json_candidate(call.arg.value) # <<>>
    /\ _extract_json_candidate(call.arg.value) # call.arg.value
    /\ LiteralEval(call.arg.value).ok
    /\ call.ret = Raise("PlannerError", "LLM output JSON parse failed")

(***************************************************************************)
(* The records _extract_plans keeps.                                       *)
(***************************************************************************)
IncompleteResponse == "Fallback option generated due to incomplete model response."

\* The indices of the objects among the first 5 raw records, in order.
KeptIndices(records) ==
    SelectSeq([i \in 1..Min(PlanCount, Len(records)) |-> i],
              LAMBDA i : IsDict(records[i]))

RecordsExtracted == Extracted /\ IsList(call.about)

\* C23: of the first 5 raw records the objects are kept, in their order; a
\* kept record keeps a canonical vibe_type of its own and otherwise gets the
\* canonical vibe of its position among the raw records; placeholders
\* (incomplete-response description, empty logistics) fill the list up to
\* exactly 5, the one at output position p with canonical vibe p.
C23_KeptRecordsThenPlaceholders ==
    (RecordsExtracted /\ KeptIndices(call.about.l) # <<>>) =>
        LET records == call.about.l
            kept == KeptIndices(records)
            plans == call.ret.v
        IN  /\ call.ret.ok
            /\ Len(plans) = PlanCount
            /\ \A k \in 1..Len(kept) :
                  LET raw == records[kept[k]] IN
                  /\ plans[k].title = Get(raw, "title").s
                  /\ plans[k].vibe_type =
                        IF IsStr(Get(raw, "vibe_type")) /\ Get(raw, "vibe_type").s \in VibeSet
                        THEN Get(raw, "vibe_type").s
                        ELSE DEFAULT_VIBES[kept[k]]
            /\ \A p \in Len(kept) + 1..PlanCount :
                  /\ plans[p].description = JStr(IncompleteResponse)
                  /\ plans[p].logistics = JDict(EmptyMap)
                  /\ plans[p].vibe_type = DEFAULT_VIBES[p]

\* A number, then a record without vibe_type, a seventh record nowhere: the
\* record is plan 1 with the vibe of raw position 2, four placeholders follow.
C23_Witness ==
    /\ RecordsExtracted
    /\ Len(call.about.l) = MaxRecords
    /\ ~IsDict(call.about.l[1]) /\ IsDict(call.about.l[2])
    /\ Get(call.about.l[2], "vibe_type") = JNull
    /\ \A i \in 3..PlanCount : ~IsDict(call.about.l[i])
    /\ IsDict(call.about.l[MaxRecords])
    /\ call.ret.ok
    /\ call.ret.v[1].vibe_type = "pivot"
    /\ call.ret.v[2].description = JStr(IncompleteResponse)
    /\ call.ret.v[2].vibe_type = "pivot"

(***************************************************************************)
(* The venues of a history, said by their first occurrences.               *)
(***************************************************************************)
\* The "places" entries of the tool messages whose content is a JSON object,
\* in the order of the history.
RECURSIVE EntriesOf(_)
EntriesOf(history) ==
    IF history = <<>> THEN <<>>
    ELSE LET message == Head(history)
             listed == IF message.role = "tool" /\ message.content.form = "json"
                          /\ IsDict(message.content.value)
                          /\ IsList(Get(message.content.value, "places"))
                       THEN Get(message.content.value, "places").l
                       ELSE <<>>
         IN  SelectSeq(listed, IsDict) \o EntriesOf(Tail(history))

Trimmed(value) == StripStr(PyStr(Or(value, JStr(""))))

KeyOf(venue) ==
    <<LowerStr(Trimmed(Get(venue, "name"))), LowerStr(Trimmed(Get(venue, "address")))>>

Named(venue) == KeyOf(venue) # <<"", "">>

\* The indices of the entries that are the first with their key.
FirstOccurrences(entries) ==
    SelectSeq([i \in 1..Len(entries) |-> i],
              LAMBDA i : /\ Named(entries[i])
                         /\ \A j \in 1..i - 1 : KeyOf(entries[j]) # KeyOf(entries[i]))

PlacesReturned == call.fn = "_extract_places_from_tool_messages" /\ call.returned
MapsFallbackReturned == call.fn = "_build_maps_grounded_fallback_plans" /\ call.returned

\* C24: the venues returned are the first occurrences, in the order of the
\* history, of the (name, address) pairs as trimmed and lower-cased; no two
\* of them have the same pair; entries without name and address, error
\* results and contents that are no JSON give nothing; and the maps-grounded
\* fallback returns no plans exactly when there is no such venue.
C24_FirstOccurrencesInOrder ==
    /\ PlacesReturned =>
          LET entries == EntriesOf(call.arg.tool_messages)
              firsts == FirstOccurrences(entries)
              places == call.ret
          IN  /\ Len(places) = Len(firsts)
              /\ \A k \in 1..Len(firsts) :
                    /\ places[k].name = Trimmed(Get(entries[firsts[k]], "name"))
                    /\ places[k].address = Trimmed(Get(entries[firsts[k]], "address"))
                    /\ places[k].rating = Get(entries[firsts[k]], "rating")
                    /\ places[k].price_level = Get(entries[firsts[k]], "price_level")
              /\ \A k, m \in 1..Len(places) :
                    k # m => <<LowerStr(places[k].name), LowerStr(places[k].address)>>
                             # <<LowerStr(places[m].name), LowerStr(places[m].address)>>
    /\ MapsFallbackReturned =>
          (call.ret = <<>>
              <=> _extract_places_from_tool_messages(call.arg.tool_messages) = <<>>)

\* Three search results in a row: the venue repeated in capitals inside the
\* first and again in the third is returned once, as first written.
C24_Witness ==
    /\ PlacesReturned
    /\ Len(call.arg.tool_messages) = MaxMessages
    /\ \A i \in 1..MaxMessages : call.arg.tool_messages[i].tool_call_id = "call_" \o ToString(i)
    /\ Len(call.ret) = 4
    /\ call.ret[1].name = "Lucky Strike" /\ call.ret[2].name = "Kings Dining"
    /\ call.ret[3].name = "Trident Cafe"
    /\ call.ret[4].name = "Lucky Strike" /\ call.ret[4].address = ""

FallbackReturned == call.fn = "_build_fallback_plans" /\ call.returned

\* C25: for every member list, the empty one included, _build_fallback_plans
\* returns exactly 5 plans, plan i with the i-th canonical vibe, each with
\* logistics.source "fallback", the reason cut to 180 characters and the
\* member names, and each located at the default_location of the first
\* member in list order that has a non-empty one, else at "Boston, MA".
C25_FiveTemplatePlans ==
    FallbackReturned =>
        LET members == call.arg.context.members
            located == {i \in 1..Len(members) :
                          IsStr(members[i].default_location)
                          /\ members[i].default_location.s # ""}
            reason == call.arg.reason
            plans == call.ret
        IN  /\ Len(plans) = 5
            /\ \A i \in 1..Len(plans) :
                  /\ plans[i].vibe_type = DEFAULT_VIBES[i]
                  /\ Get(plans[i].logistics, "source") = JStr("fallback")
                  /\ Get(plans[i].logistics, "reason")
                        = JStr(IF Len(reason) <= 180 THEN reason ELSE SubSeq(reason, 1, 180))
                  /\ IsList(Get(plans[i].logistics, "members"))
                  /\ Len(Get(plans[i].logistics, "members").l) = Len(members)
                  /\ \A m \in 1..Len(members) :
                        Get(plans[i].logistics, "members").l[m] =
                            IF IsStr(members[m].name) /\ members[m].name.s # ""
                            THEN members[m].name
                            ELSE IF IsStr(members[m].email) /\ members[m].email.s # ""
                            THEN members[m].email
                            ELSE JStr("member")
                  /\ plans[i].location =
                        IF located = {} THEN JStr("Boston, MA")
                        ELSE members[First(located)].default_location

\* Three members, the first without a location, the second with an empty
\* one, the third in Somerville, and a reason longer than 180 characters.
C25_Witness ==
    /\ FallbackReturned
    /\ Len(call.arg.context.members) = MaxMembers
    /\ call.arg.context.members[1].default_location = JNull
    /\ call.arg.context.members[2].default_location = JStr("")
    /\ call.arg.context.members[3].default_location = JStr("Somerville, MA")
    /\ Len(call.arg.reason) > 180
    /\ Len(Get(call.ret[5].logistics, "reason").s) = 180
    /\ call.ret[5].location = JStr("Somerville, MA")

(***************************************************************************)
(* Two invocations of a synthesizer on the same arguments.                 *)
(***************************************************************************)
InvokedTwice == Len(invocations) = 2

Undated(plans) == [i \in 1..Len(plans) |-> [plans[i] EXCEPT !.date_time = JNull]]

NoToolMessagesPassed == \A i \in 1..Len(messages) : messages[i].role # "tool"

\* The step the loop without the check (lines 989-999 left out) takes at the
\* end of a round: the next iteration, or the code after the loop.
RoundEndUnchecked ==
    /\ rounds' = rounds + 1
    /\ consecutive_all_error_rounds' =
           IF round_had_success THEN 0 ELSE consecutive_all_error_rounds + 1
    /\ pc' = (IF rounds' < max_rounds THEN "loop_model" ELSE "after_loop")
    /\ events' = (IF rounds' < max_rounds THEN Append(events, "model:tools") ELSE events)
    /\ UNCHANGED <<work_messages, loop_ret, output, tool_messages, exc, result>>

\* C27: with max_rounds = 2 and no tool message in the history passed in,
\* every step of _run_tool_loop at the end of a round is the step of the loop
\* without the consecutive-all-error check, so the two make the same model
\* calls and return the same output and history; the sentinel is never
\* returned from the early exit.
C27_EarlyExitIsRedundant ==
    [][(pc = "round_end" /\ max_rounds = 2 /\ NoToolMessagesPassed)
          => /\ RoundEndUnchecked
             /\ loop_ret' = NoLoopRet]_vars

\* The same for every max_rounds: it fails from max_rounds = 3 on, where the
\* loop breaks after two all-error rounds and the loop without the check
\* makes a third tool-enabled call.
C27_EarlyExitIsRedundantForAnyBudget ==
    [][(pc = "round_end" /\ NoToolMessagesPassed) => RoundEndUnchecked]_vars

\* Both rounds of a run with max_rounds = 2 held only failed tool calls: the
\* check fires at the end of the second round, where the loop is over anyway.
C27_Witness ==
    /\ pc = "after_loop"
    /\ max_rounds = 2 /\ rounds = 2
    /\ NoToolMessagesPassed
    /\ consecutive_all_error_rounds = AllErrorRoundsLimit
    /\ _summarize_tool_results(work_messages).place_results = 0

\* With max_rounds = 3 the loop is left after two rounds.
C27_WitnessThreeRounds ==
    /\ pc = "after_loop"
    /\ max_rounds = 3 /\ rounds = 2
    /\ consecutive_all_error_rounds = AllErrorRoundsLimit

(***************************************************************************)
(* The calls of a run of generate_group_plans.                             *)
(***************************************************************************)
LogicalModelCalls ==
    Count(events, "model:tools") + Count(events, "model:finalize")
    + Count(events, "model:plain") + Count(events, "model:retry")

WithinCallBudget ==
    /\ Count(events, "model:tools") <= max_rounds
    /\ Count(events, "model:finalize") <= 1
    /\ Count(events, "model:retry") <= 1
    /\ IF use_tool_grounding
       THEN LogicalModelCalls <= max_rounds + 2 /\ Count(events, "model:plain") = 0
       ELSE /\ LogicalModelCalls <= 2
            /\ Count(events, "model:tools") = 0 /\ Count(events, "model:finalize") = 0
    /\ attempt <= 3

\* C28: a run of generate_group_plans whose model and tool calls each return
\* or fail ends, returning or raising; it makes at most max_rounds
\* tool-enabled calls, one finalize call and one structured-retry call
\* (max_rounds + 2 logical model calls with tool grounding, 2 without), each
\* of at most 3 attempts.
C28_TerminatesWithinBudget ==
    /\ [](entry = "generate_group_plans" => WithinCallBudget)
    /\ (entry = "generate_group_plans") => <>(pc = "done" /\ result # NoResult)

\* A run has ended after max_rounds + 2 logical model calls, raising because
\* the structured-retry call failed at its third attempt.
C28_Witness ==
    /\ entry = "generate_group_plans"
    /\ pc = "done"
    /\ result = Raised(Exc("PlannerError",
                 "Planner failed: RetryError: connection failed after the retry budget"))
    /\ use_tool_grounding
    /\ LogicalModelCalls = max_rounds + 2
    /\ Count(events, "model:tools") = max_rounds
    /\ Count(events, "model:finalize") = 1
    /\ Count(events, "model:retry") = 1

(***************************************************************************)
(* The message history of a run of _run_tool_loop, step by step.           *)
(***************************************************************************)
\* The history of run r: the list work_messages refers to.
HistoryOf(r) == lists[runs[r].work_messages]

\* C29: within a run of _run_tool_loop the message history is append-only:
\* every step leaves each message of the history in place, unchanged and at
\* its index; no step writes the list the caller passed; and the history a
\* run returns begins with the caller's messages.
C29_HistoryAppendOnly ==
    [][\A r \in Runs :
          /\ runs'[r].messages = runs[r].messages
          /\ lists'[runs[r].messages] = lists[runs[r].messages]
          /\ Started(r) =>
                /\ runs'[r].work_messages = runs[r].work_messages
                /\ Len(lists'[runs[r].work_messages]) >= Len(HistoryOf(r))
                /\ \A i \in 1..Len(HistoryOf(r)) :
                      lists'[runs[r].work_messages][i] = HistoryOf(r)[i]
          /\ runs'[r].ret.status = "returned" =>
                /\ runs'[r].ret.messages = runs'[r].work_messages
                /\ IsPrefix(lists'[runs'[r].messages], lists'[runs'[r].ret.messages])
      ]_vars

\* Run 1 has returned a history of two rounds of tool calls and the finalize
\* instruction after the caller's messages, while run 2, passed the same
\* list, is between two tool calls.
C29_Witness ==
    /\ runs[1].messages = runs[2].messages
    /\ runs[1].ret.status = "returned"
    /\ runs[1].rounds = MAX_TOOL_ROUNDS
    /\ Len(lists[runs[1].ret.messages]) >= Len(lists[runs[1].messages]) + 5
    /\ HistoryOf(1)[Len(HistoryOf(1))] = Msg("user", FinalizeInstruction)
    /\ runs[2].pc = "tool_exec"
    /\ Len(HistoryOf(2)) > Len(lists[runs[2].messages])

(***************************************************************************)
(* Searches that found nothing.                                            *)
(***************************************************************************)
\* The tool messages of a history that report a search without an error.
SuccessfulSearches(history) ==
    {i \in 1..Len(history) :
        LET payload == ToolPayload(history[i]) IN
        /\ IsDict(payload)
        /\ ~IsErrorResult(payload)
        /\ IsList(Get(payload, "places"))}

\* The first candidate output was classified "no plans", with tool grounding
\* on, no venue in the tool messages, and searches that succeeded but found
\* no place.
SearchedInVain ==
    /\ entry = "generate_group_plans" /\ use_tool_grounding
    /\ loop_ret.status = "returned"
    /\ ~_extract_plans(output).ok
    /\ _extract_plans(output).exc.cls = "PlannerError"
    /\ ContainsNoPlans(_extract_plans(output).exc.msg)
    /\ _extract_places_from_tool_messages(tool_messages) = <<>>
    /\ SuccessfulSearches(tool_messages) # {}
    /\ \A i \in SuccessfulSearches(tool_messages) :
          Len(Get(ToolPayload(tool_messages[i]), "places").l) = 0

\* C30: with tool grounding on, a first output classified "no plans", no
\* venue in the tool messages and at least one successful search, all of
\* them without places, generate_group_plans issues no structured retry:
\* the parse handler raises, the outer handler follows at once, and the run
\* ends with PlannerError "Planner failed: ..." when
\* planner_fallback_enabled is false, and with the 5 template plans when it
\* is true.
C30_NoRetryAfterSearchesInVain ==
    /\ [](SearchedInVain =>
            /\ pc \in {"parse_failed", "fatal", "done"}
            /\ Count(events, "model:retry") = 0
            /\ repaired = EmptyText
            /\ pc = "done" =>
                  IF settings.planner_fallback_enabled
                  THEN /\ result.kind = "returned" /\ result.via = "template"
                       /\ Len(result.plans) = PlanCount
                       /\ result.plans = _build_fallback_plans(context,
                                             exc.cls \o ": " \o exc.msg, refinement_notes)
                  ELSE /\ result.kind = "raised"
                       /\ result.exc.cls = "PlannerError"
                       /\ StartsWith(result.exc.msg, "Planner failed: PlannerError: "
                              \o "LLM returned no plans and map search produced no usable venues"))
    /\ [][SearchedInVain =>
            /\ pc = "parse_failed" => pc' = "fatal"
            /\ pc = "fatal" => pc' = "done"]_vars

\* The run ended with PlannerError after a finalize call that answered with
\* no plans; two searches had succeeded without places.
C30_Witness ==
    /\ SearchedInVain /\ pc = "done"
    /\ ~settings.planner_fallback_enabled
    /\ result.kind = "raised"
    /\ Cardinality(SuccessfulSearches(tool_messages)) >= 2
    /\ Count(events, "model:finalize") = 1

\* The run ended with the template plans in the same case.
C30_WitnessTemplate ==
    /\ SearchedInVain /\ pc = "done"
    /\ settings.planner_fallback_enabled
    /\ result.kind = "returned" /\ result.via = "template"
====
